---- MODULE Spec2Model ----
(***************************************************************************)
(* A model of GFFx: the index builder (build_index), the index loaders,    *)
(* the parent-chain resolver, the centered interval tree, the GFF block    *)
(* writer and the extract / search / intersect / coverage / depth queries. *)
(*                                                                         *)
(* Every component keeps its state in one record variable whose fields     *)
(* carry the names of the locals of the Rust code.  Each component has its *)
(* own specification (SpecResolver, SpecBuild, ...) in which the other     *)
(* components stay idle.                                                   *)
(*                                                                         *)
(* FIDs, SIDs and AIDs are 0-based as in the code; TLA+ sequences are      *)
(* 1-based, so entry i of a Rust Vec v is v[i + 1] here.                   *)
(***************************************************************************)
EXTENDS Integers, Sequences, FiniteSets, TLC

VARIABLES
    resolver,   \* PrtMap + the locals of PrtMap::resolve_root
    gff,        \* the GFF file and the arguments of build_index
    index,      \* the artifacts written by build_index
    tree,       \* IntervalTree::new + query_interval
    intersect,  \* intersect::query_features
    coverage,   \* coverage::compute_breadth_for_root
    depth,      \* depth::compute_root_depth
    writer,     \* common::write_gff_output
    extract,    \* extract::run
    search      \* commands::search::run

vars == <<resolver, gff, index, tree, intersect, coverage, depth, writer, extract, search>>

(***************************************************************************)
(* Bounds of the model.                                                    *)
(***************************************************************************)
MaxPrtLen == 3      \* longest exhaustively enumerated .prt array
MaxSteps == 9       \* cap on the counted iterations of the resolver loop
MaxIvs == 3         \* longest interval list given to IntervalTree::new
MaxCoord == 2       \* largest coordinate of a stored interval

(***************************************************************************)
(* u32::MAX, the "invalid / none" sentinel.  TLC integers are 32-bit       *)
(* signed, so the sentinel is the largest representable value; the code    *)
(* only relies on it being larger than every FID and AID.                  *)
(***************************************************************************)
MAX_U32 == 2147483647

None == "None"      \* Rust's Option::None

Min(a, b) == IF a < b THEN a ELSE b
Max(a, b) == IF a > b THEN a ELSE b

\* s.saturating_sub(1) on u32
saturating_sub(x, y) == IF x >= y THEN x - y ELSE 0

Range(s) == {s[i] : i \in 1..Len(s)}

RECURSIVE SumSeq(_)
SumSeq(s) == IF s = <<>> THEN 0 ELSE Head(s) + SumSeq(Tail(s))

RECURSIVE SetToSortedSeq(_)
\* v.sort_unstable(); v.dedup() on a Vec<u32>: the ascending sequence of a set
SetToSortedSeq(S) ==
    IF S = {} THEN <<>>
    ELSE LET m == CHOOSE x \in S : \A y \in S : x <= y
         IN <<m>> \o SetToSortedSeq(S \ {m})

\* the permutations of 1..n
Perms(n) == {p \in [1..n -> 1..n] : \A i, j \in 1..n : p[i] = p[j] => i = j}

(***************************************************************************)
(* Idle values of the components.                                          *)
(***************************************************************************)
IdleResolver == [entries |-> <<>>, start |-> 0, cur |-> 0, steps |-> 0,
                 pc |-> "idle", root |-> 0]
IdleGff == [pc |-> "idle"]
IdleIndex == [pc |-> "idle"]
IdleTree == [intervals |-> <<>>, root |-> <<>>, start |-> 0, end |-> 0,
             out |-> <<>>, pc |-> "idle"]
IdleIntersect == [pc |-> "idle"]
IdleCoverage == [pc |-> "idle"]
IdleDepth == [pc |-> "idle"]
IdleWriter == [pc |-> "idle"]
IdleExtract == [pc |-> "idle"]
IdleSearch == [pc |-> "idle"]

(***************************************************************************)
(* 4.D Parent-chain resolver: PrtMap::resolve_root / map_fids_to_roots.    *)
(***************************************************************************)

\* The .prt array of scenario 6: eight features, all roots, except that
\* parent[5] = 6 and parent[6] = 5.
CyclePrt == [i \in 1..8 |-> IF i - 1 = 5 THEN 6 ELSE IF i - 1 = 6 THEN 5 ELSE i - 1]

\* load_prt accepts any u32 array: entries may be out of range.
PrtArrays ==
    UNION {[1..n -> 0..n] : n \in 1..MaxPrtLen} \cup {CyclePrt}

\* map_fids_to_roots, one element of the input vector: the sentinel is kept
\* as is, any other FID enters resolve_root with cur = start.
MapFidToRoot(fid) ==
    /\ resolver.pc = "idle"
    /\ resolver' =
         IF fid = MAX_U32
         THEN [resolver EXCEPT !.start = fid, !.root = MAX_U32, !.pc = "done"]
         ELSE [resolver EXCEPT !.start = fid, !.cur = fid, !.steps = 0, !.pc = "loop"]
    /\ UNCHANGED <<gff, index, tree, intersect, coverage, depth, writer, extract, search>>

\* One iteration of the `loop` of resolve_root.
ResolveRootIter(r) ==
    LET n == Len(r.entries) IN
    IF r.cur >= n
    THEN [r EXCEPT !.root = MAX_U32, !.pc = "done"]
    ELSE LET p == r.entries[r.cur + 1] IN
         IF p = r.cur THEN [r EXCEPT !.root = r.cur, !.pc = "done"]
         ELSE IF p >= n THEN [r EXCEPT !.root = MAX_U32, !.pc = "done"]
         ELSE [r EXCEPT !.cur = p, !.steps = r.steps + 1]

ResolveRootStep ==
    /\ resolver.pc = "loop"
    /\ resolver.steps < MaxSteps
    /\ resolver' = ResolveRootIter(resolver)
    /\ UNCHANGED <<gff, index, tree, intersect, coverage, depth, writer, extract, search>>

InitResolver ==
    /\ resolver \in {[IdleResolver EXCEPT !.entries = e] : e \in PrtArrays}
    /\ gff = IdleGff /\ index = IdleIndex /\ tree = IdleTree
    /\ intersect = IdleIntersect /\ coverage = IdleCoverage /\ depth = IdleDepth
    /\ writer = IdleWriter /\ extract = IdleExtract /\ search = IdleSearch

NextResolver ==
    \/ \E fid \in (0..Len(resolver.entries)) \cup {MAX_U32} : MapFidToRoot(fid)
    \/ ResolveRootStep

SpecResolver == InitResolver /\ [][NextResolver]_vars

\* C1: the resolver terminates for every parent array and every start FID:
\* following parent[] from a FID takes fewer than N steps before the walk
\* ends at a root or reports the FID invalid (root = MAX_U32); a chain that
\* never reaches a self-parent entry is not followed forever.
C1_ResolverTerminatesWithinN ==
    resolver.pc = "loop" => resolver.steps < Len(resolver.entries)

(***************************************************************************)
(* 4.A Centered interval tree (utils/tree.rs).  An Option<Box<Node>> is    *)
(* <<>> for None and <<node>> for Some(node).                              *)
(***************************************************************************)
Interval(s, e, fid) == [start |-> s, end |-> e, root_fid |-> fid]

RECURSIVE InsertByStart(_, _)
\* insert iv behind every element whose start is <= iv.start
InsertByStart(sorted, iv) ==
    IF sorted = <<>> THEN <<iv>>
    ELSE IF Head(sorted).start <= iv.start
         THEN <<Head(sorted)>> \o InsertByStart(Tail(sorted), iv)
         ELSE <<iv>> \o sorted

RECURSIVE sort_by_start(_)
\* intervals.sort_by_key(|iv| iv.start): a stable sort
sort_by_start(ivs) ==
    IF ivs = <<>> THEN <<>>
    ELSE InsertByStart(sort_by_start(SubSeq(ivs, 1, Len(ivs) - 1)), ivs[Len(ivs)])

\* mutant: an interval goes left when it starts left of the center
GoesLeft_ByStart(iv, center) == iv.start < center
\* the three-way partition of IntervalTree::build around `center`
GoesLeft(iv, center) == iv.end < center
GoesRight(iv, center) == ~GoesLeft(iv, center) /\ iv.start > center

RECURSIVE build(_)
build(intervals) ==
    IF intervals = <<>> THEN <<>>
    ELSE LET sorted == sort_by_start(intervals)
             mid == Len(sorted) \div 2
             center == sorted[mid + 1].start
             left == SelectSeq(sorted, LAMBDA iv : GoesLeft(iv, center))
             right == SelectSeq(sorted, LAMBDA iv : GoesRight(iv, center))
             center_ivs == SelectSeq(sorted, LAMBDA iv :
                              ~GoesLeft(iv, center) /\ ~GoesRight(iv, center))
         IN <<[center |-> center, intervals |-> center_ivs,
               left |-> build(left), right |-> build(right)]>>

\* the test of query_interval_rec on the intervals of a node (half-open)
HalfOpenHit(iv, start, end) == iv.start < end /\ iv.end > start

\* the pruning of query_interval_rec
DescendLeft(center, start, end) == start < center
\* mutant: the right subtree is entered only when the whole query lies right
\* of the center, as for a point query
DescendRight_PointLike(center, start, end) == start > center
DescendRight(center, start, end) == end > center

RECURSIVE query_interval_rec(_, _, _)
query_interval_rec(node, start, end) ==
    IF node = <<>> THEN <<>>
    ELSE LET n == node[1] IN
         SelectSeq(n.intervals, LAMBDA iv : HalfOpenHit(iv, start, end))
         \o (IF DescendLeft(n.center, start, end)
             THEN query_interval_rec(n.left, start, end) ELSE <<>>)
         \o (IF DescendRight(n.center, start, end)
             THEN query_interval_rec(n.right, start, end) ELSE <<>>)

\* closed intervals [start, end] over the model's coordinates
Spans == {<<s, e>> \in (0..MaxCoord) \X (0..MaxCoord) : s <= e}

\* interval lists; entry i carries root_fid i - 1
IntervalLists ==
    UNION {{[i \in 1..n |-> Interval(f[i][1], f[i][2], i - 1)] : f \in [1..n -> Spans]}
           : n \in 0..MaxIvs}

\* IntervalTree::new
TreeNew ==
    /\ tree.pc = "input"
    /\ tree' = [tree EXCEPT !.root = build(tree.intervals), !.pc = "built"]
    /\ UNCHANGED <<resolver, gff, index, intersect, coverage, depth, writer, extract, search>>

\* IntervalTree::query_interval(start, end, out) with an empty `out`
TreeQueryInterval(s, e) ==
    /\ tree.pc = "built"
    /\ tree' = [tree EXCEPT !.start = s, !.end = e,
                            !.out = query_interval_rec(tree.root, s, e),
                            !.pc = "queried"]
    /\ UNCHANGED <<resolver, gff, index, intersect, coverage, depth, writer, extract, search>>

InitTree ==
    /\ tree \in {[IdleTree EXCEPT !.intervals = ivs, !.pc = "input"] : ivs \in IntervalLists}
    /\ resolver = IdleResolver /\ gff = IdleGff /\ index = IdleIndex
    /\ intersect = IdleIntersect /\ coverage = IdleCoverage /\ depth = IdleDepth
    /\ writer = IdleWriter /\ extract = IdleExtract /\ search = IdleSearch

NextTree ==
    \/ TreeNew
    \/ \E s, e \in 0..(MaxCoord + 1) : TreeQueryInterval(s, e)

SpecTree == InitTree /\ [][NextTree]_vars

Count(seq, x) == Cardinality({i \in 1..Len(seq) : seq[i] = x})

\* C4: query_interval on the tree built by IntervalTree::new returns exactly
\* the stored intervals iv with iv.start < e /\ iv.end > s, each once: every
\* stored interval that matches is in the output as often as it is stored,
\* and an interval that does not match is not in the output.
C4_QueryIntervalExact ==
    tree.pc = "queried" =>
        /\ \A i \in 1..Len(tree.intervals) :
              LET iv == tree.intervals[i] IN
              Count(tree.out, iv) =
                 IF iv.start < tree.end /\ iv.end > tree.start
                 THEN Count(tree.intervals, iv) ELSE 0
        /\ Range(tree.out) \subseteq Range(tree.intervals)

\* C4 witness: a query on a tree with a left and a right child in which a
\* subtree is pruned, one stored interval is returned and another is not.
C4_Witness ==
    /\ tree.pc = "queried"
    /\ tree.root # <<>>
    /\ tree.root[1].left # <<>> /\ tree.root[1].right # <<>>
    /\ ~DescendLeft(tree.root[1].center, tree.start, tree.end)
    /\ tree.out # <<>>
    /\ Len(tree.out) < Len(tree.intervals)

(***************************************************************************)
(* 4.B Index builder (index_builder/core.rs, build_index).                 *)
(*                                                                         *)
(* The GFF file is a sequence of lines.  A line is a record: `kind` tells  *)
(* a feature line from a comment line ('#' first), a blank line and a line *)
(* that has not nine columns; a feature line carries its columns 1, 3, 4,  *)
(* 5 and the ID, Parent and <attr_key> attributes of column 9.  The        *)
(* regexes of build_index and the finders of the writers are searched in   *)
(* the text of the line without anchor: `idkey` and `key` name the         *)
(* attribute the value `id` resp. `attr` is written under.                 *)
(***************************************************************************)
\* the attribute key K given to build_index
attr_key == "K"

\* `attr` is the value of the attribute `key` of column 9, which is K unless
\* FeatureKey names another key
GffLine(kind, seqid, type, s1, e1, id, parent, attr) ==
    [kind |-> kind, seqid |-> seqid, type |-> type, s1 |-> s1, e1 |-> e1,
     id |-> id, parent |-> parent, attr |-> attr,
     idkey |-> IF id = None THEN None ELSE "ID",
     key |-> IF attr = None THEN None ELSE attr_key]

Feature(seqid, type, s1, e1, id, parent, attr) ==
    GffLine("feature", seqid, type, s1, e1, id, parent, attr)

\* a feature line whose column 9 has the attribute key=attr
FeatureKey(seqid, type, s1, e1, id, parent, key, attr) ==
    [Feature(seqid, type, s1, e1, id, parent, attr) EXCEPT !.key = key]

\* a feature line whose column 9 has the attribute idkey=id and no other
\* attribute that ends in ID
FeatureIdKey(seqid, type, s1, e1, idkey, id, parent, attr) ==
    [Feature(seqid, type, s1, e1, id, parent, attr) EXCEPT !.idkey = idkey]

\* id_re.captures(line)[1] for the regex ID=([^;\s]+), which is searched in
\* the whole line: the text "ID=" of an attribute XID=v is a match as well
id_re_captures(l) == IF l.idkey \in {"ID", "XID"} THEN l.id ELSE None

\* attr_re.captures(line)[1] for the regex K=([^;]+), which is searched in the
\* whole line: the text "K=" of an attribute XK=v is a match as well
attr_re_captures(l) == IF l.key \in {attr_key, "X" \o attr_key} THEN l.attr ELSE None

\* the lines the files of the model are made of
GffLines ==
    { Feature("chr1", "gene", 1, 2, "a", None, "x"),
      Feature("chr1", "exon", 1, 1, "b", "a", None),
      Feature("chr1", "exon", 2, 1, "c", "b", "y"),
      Feature("chr2", "gene", 2, 3, "b", None, "x"),
      Feature("chr1", "gene", 1, 3, "a", "b", None),
      Feature("chr2", "exon", 3, 3, "c", "z", None),
      Feature("chr1", "exon", 2, 2, "c", "a", None),
      Feature("chr1", "region", 1, 3, "c", None, None),
      Feature("chr1", "gene", 0, 0, "d", None, None),
      Feature("chr1", "gene", 3, 3, "d", None, "#z"),
      FeatureKey("chr1", "gene", 2, 3, "b", None, "XK", "x"),
      Feature("chr1", "gene", 1, 1, None, None, "y"),
      GffLine("comment", None, None, 0, 0, None, None, None),
      GffLine("blank", None, None, 0, 0, None, None, None),
      GffLine("malformed", None, None, 0, 0, None, None, None) }

\* the number of bytes of a line, its '\n' included
LineLen(l) ==
    CASE l.kind = "blank" -> 1
      [] l.kind = "comment" -> 2
      [] l.kind = "malformed" -> 2
      [] OTHER -> 3

\* data.len()
FileLen(lines) == SumSeq([i \in 1..Len(lines) |-> LineLen(lines[i])])

\* the byte offset of line i (1-based) of the file
LineOffset(lines, i) == FileLen(SubSeq(lines, 1, i - 1))

RECURSIVE FirstPass(_, _, _, _)
\* the first pass of build_index: the raw features, or the error of `bail!`
FirstPass(lines, offset, skip_types_set, raw_features) ==
    IF lines = <<>> THEN [ok |-> TRUE, raw_features |-> raw_features]
    ELSE LET l == Head(lines)
             line_offset == offset
             next == offset + LineLen(l)
             continue == FirstPass(Tail(lines), next, skip_types_set, raw_features)
             err == [ok |-> FALSE, raw_features |-> <<>>]
         IN IF l.kind \in {"blank", "comment"} THEN continue
            ELSE IF l.kind = "malformed" THEN err
            ELSE IF l.type \in skip_types_set THEN continue
            ELSE IF l.kind = "unparsable" THEN err
            ELSE IF l.e1 = 0 THEN continue
            ELSE LET s1 == Min(l.s1, l.e1)
                     e1 == Max(l.s1, l.e1)
                 IN IF id_re_captures(l) = None THEN err
                    ELSE FirstPass(Tail(lines), next, skip_types_set,
                            Append(raw_features,
                                   [seqid |-> l.seqid,
                                    start |-> saturating_sub(s1, 1),
                                    end |-> e1,
                                    line_offset |-> line_offset,
                                    id |-> id_re_captures(l),
                                    parent |-> l.parent,
                                    attr |-> attr_re_captures(l)]))

\* feature_map: string ID -> numeric ID; a later insert replaces an earlier
feature_map(raw_features) ==
    [id \in {raw_features[i].id : i \in 1..Len(raw_features)} |->
        (CHOOSE i \in 1..Len(raw_features) :
            /\ raw_features[i].id = id
            /\ \A j \in 1..Len(raw_features) : raw_features[j].id = id => j <= i) - 1]

\* the position of x in the sequence s, 0-based (x is in s)
IndexOf(s, x) == (CHOOSE i \in 1..Len(s) : s[i] = x /\ \A j \in 1..(i - 1) : s[j] # x) - 1

\* write_gof: one record of the .gof file
GofRecord(id, seq_num, start, end) ==
    [id |-> id, seq_num |-> seq_num, start |-> start, end |-> end]

\* the state of the second pass before its first iteration
SecondPassInit ==
    [fts |-> <<>>, prt_entries |-> <<>>, a2f_entries |-> <<>>, atn_entries |-> <<>>,
     gof |-> <<>>, seqid_to_num |-> <<>>, trees_input |-> <<>>, current_root |-> <<>>]

\* one iteration of the second pass
SecondPassIter(b, rf, fmap) ==
    LET fid == fmap[rf.id]
        parent_id == IF rf.parent # None /\ rf.parent \in DOMAIN fmap
                     THEN fmap[rf.parent] ELSE fid
        is_root == parent_id = fid
        seqids == IF is_root /\ rf.seqid \notin Range(b.seqid_to_num)
                  THEN Append(b.seqid_to_num, rf.seqid) ELSE b.seqid_to_num
        seqid_num == IndexOf(seqids, rf.seqid)
        inputs == IF Len(seqids) > Len(b.trees_input)
                  THEN Append(b.trees_input, <<>>) ELSE b.trees_input
        atn == IF rf.attr # None /\ rf.attr \notin Range(b.atn_entries)
               THEN Append(b.atn_entries, rf.attr) ELSE b.atn_entries
    IN [fts |-> Append(b.fts, rf.id),
        prt_entries |-> Append(b.prt_entries, parent_id),
        a2f_entries |-> Append(b.a2f_entries,
                          IF rf.attr # None THEN IndexOf(atn, rf.attr) ELSE MAX_U32),
        atn_entries |-> atn,
        gof |-> IF is_root /\ b.current_root # <<>>
                THEN Append(b.gof, GofRecord(b.current_root[1], b.current_root[3],
                                             b.current_root[2], rf.line_offset))
                ELSE b.gof,
        seqid_to_num |-> IF is_root THEN seqids ELSE b.seqid_to_num,
        trees_input |-> IF is_root
                        THEN [inputs EXCEPT ![seqid_num + 1] =
                                 Append(@, Interval(rf.start, rf.end, fid))]
                        ELSE b.trees_input,
        current_root |-> IF is_root THEN <<fid, rf.line_offset, seqid_num>>
                         ELSE b.current_root]

RECURSIVE SecondPass(_, _, _)
SecondPass(b, raw_features, fmap) ==
    IF raw_features = <<>> THEN b
    ELSE SecondPass(SecondPassIter(b, Head(raw_features), fmap), Tail(raw_features), fmap)

\* the final GOF record closes the last root's block at the end of the file
FinalGof(b, data_len) ==
    IF b.current_root # <<>>
    THEN Append(b.gof, GofRecord(b.current_root[1], b.current_root[3],
                                 b.current_root[2], data_len))
    ELSE b.gof

MaxLines == 3       \* longest GFF file, in lines

\* the orders in which the hash maps of one run of build_index would yield
\* their entries: the k-th inserted key is yielded at rank hash_order[k]
HashOrders == Perms(MaxLines)

\* the entries in the order of their ranks
ByRank(entries, hash_order) ==
    LET n == Len(entries)
        ranks == SetToSortedSeq({hash_order[i] : i \in 1..n})
    IN [k \in 1..n |-> entries[CHOOSE i \in 1..n : hash_order[i] = ranks[k]]]

\* mutant: seqid_to_num is a hash map, iterated in the order of the hasher
IndexMapIter_Hashed(entries, hash_order) == ByRank(entries, hash_order)

\* `for (k, v) in &seqid_to_num` and seqid_to_num.keys(): an IndexMap yields
\* its entries in insertion order, whatever the hasher
IndexMapIter(entries, hash_order) == entries

\* the artifacts a run of build_index writes for a file; hash_order is the
\* order of the hasher in this run.  feature_map, attr_value_to_id and
\* skip_types_set are hash collections the run inserts into and looks keys
\* up in; the two loops over a map are the ones over seqid_to_num.
BuiltIndex(lines, skip_types_set, hash_order) ==
    LET first == FirstPass(lines, 0, skip_types_set, <<>>) IN
    IF ~first.ok THEN [pc |-> "error"]
    ELSE LET raw == first.raw_features
             b == SecondPass(SecondPassInit, raw, feature_map(raw))
             \* seqid_to_num: (seqid, seqid_num) in insertion order
             entries == [i \in 1..Len(b.seqid_to_num) |-> <<b.seqid_to_num[i], i - 1>>]
             for_trees == IndexMapIter(entries, hash_order)
             keys == IndexMapIter(entries, hash_order)
         IN [pc |-> "built",
             raw_features |-> raw,
             fts |-> b.fts,
             prt |-> b.prt_entries,
             a2f |-> b.a2f_entries,
             atn |-> b.atn_entries,
             gof |-> FinalGof(b, FileLen(lines)),
             sqs |-> [k \in 1..Len(keys) |-> keys[k][1]],
             trees |-> [k \in 1..Len(for_trees) |->
                          build(b.trees_input[for_trees[k][2] + 1])]]

\* the values of --skip-types: skip_types.split(',')
SkipTypeSets == {{""}, {"region"}}

RECURSIVE SeqsUpTo(_, _)
\* the sequences over S of length <= n
SeqsUpTo(S, n) ==
    IF n = 0 THEN {<<>>}
    ELSE LET shorter == SeqsUpTo(S, n - 1)
         IN shorter \cup {Append(q, x) : q \in {r \in shorter : Len(r) = n - 1}, x \in S}

\* build_index(gff, attr_key, skip_types, verbose), the whole function
BuildIndex ==
    /\ gff.pc = "input"
    /\ \E hash_order \in HashOrders :
          index' = BuiltIndex(gff.lines, gff.skip_types, hash_order)
    /\ gff' = [gff EXCEPT !.pc = "indexed"]
    /\ UNCHANGED <<resolver, tree, intersect, coverage, depth, writer, extract, search>>

InitBuild ==
    /\ gff \in {[pc |-> "input", lines |-> ls, skip_types |-> sk] :
                  ls \in SeqsUpTo(GffLines, MaxLines), sk \in SkipTypeSets}
    /\ index = IdleIndex
    /\ resolver = IdleResolver /\ tree = IdleTree
    /\ intersect = IdleIntersect /\ coverage = IdleCoverage /\ depth = IdleDepth
    /\ writer = IdleWriter /\ extract = IdleExtract /\ search = IdleSearch

NextBuild == BuildIndex

SpecBuild == InitBuild /\ [][NextBuild]_vars

\* "the loop of resolve_root does not return"
Hang == -1

RECURSIVE ResolveRootRun(_, _)
\* the loop of resolve_root run for at most `fuel` iterations
ResolveRootRun(r, fuel) ==
    IF r.pc = "done" THEN r.root
    ELSE IF fuel = 0 THEN Hang
    ELSE ResolveRootRun(ResolveRootIter(r), fuel - 1)

\* PrtMap::resolve_root(start) as a function: a walk over N entries that has
\* not returned after N + 1 iterations has visited an entry twice and never
\* returns
resolve_root(entries, start) ==
    ResolveRootRun([IdleResolver EXCEPT !.entries = entries, !.start = start,
                                        !.cur = start, !.pc = "loop"],
                   Len(entries) + 1)

\* the kept feature lines of the built index, as their positions in .fts
KeptFeatures == 1..Len(index.raw_features)

\* the bytes [line_offset, line_offset + len) of kept feature i lie in block g
LineInBlock(i, g) ==
    /\ g.start <= index.raw_features[i].line_offset
    /\ index.raw_features[i].line_offset < g.end

\* C2: after build_index on any GFF input the GOF ranges cover the file but
\* for comment lines, blank lines and lines of a skipped type: every kept
\* feature line lies inside at least one GOF block.
C2_GofCoversKeptFeatures ==
    index.pc = "built" =>
        \A i \in KeptFeatures : \E g \in Range(index.gof) : LineInBlock(i, g)

\* C3: after build_index, for every kept feature f the parent chain of f in
\* .prt resolves to a root, and the line of f lies inside the GOF block of
\* that root, whatever the order of the lines of the input.
C3_FeatureInBlockOfItsRoot ==
    index.pc = "built" =>
        \A i \in KeptFeatures :
            LET root == resolve_root(index.prt, i - 1) IN
            /\ root # Hang /\ root # MAX_U32
            /\ \E g \in Range(index.gof) : g.id = root /\ LineInBlock(i, g)

(***************************************************************************)
(* 4.G Intersect query (intersect/mod.rs).  The trees of IndexData are the *)
(* crate's IntervalTree of utils/serial_interval_trees.rs, whose           *)
(* query_interval(start, end) tests the intervals of a node with closed    *)
(* bounds.                                                                 *)
(***************************************************************************)
MaxRegions == 2     \* longest region list of a query

\* the test of serial_interval_trees::query_interval_rec on a node's intervals
ClosedHit(iv, start, end) == iv.start <= end /\ iv.end >= start

RECURSIVE serial_query_interval_rec(_, _, _)
serial_query_interval_rec(node, start, end) ==
    IF node = <<>> THEN <<>>
    ELSE LET n == node[1] IN
         SelectSeq(n.intervals, LAMBDA iv : ClosedHit(iv, start, end))
         \o (IF start < n.center
             THEN serial_query_interval_rec(n.left, start, end) ELSE <<>>)
         \o (IF end > n.center
             THEN serial_query_interval_rec(n.right, start, end) ELSE <<>>)

\* the root intervals of scenario 1: g1 = [100,200) and g2 = [300,400) on chr1
ScenarioRoots == << <<Interval(100, 200, 0), Interval(300, 400, 1)>> >>

\* the root intervals per SID of the indexes that are queried
RootIntervalSets ==
    { ScenarioRoots,
      << <<Interval(0, 2, 0)>> >>,
      << <<Interval(1, 2, 0), Interval(0, 1, 1)>> >>,
      << <<Interval(0, 1, 0)>>, <<Interval(1, 3, 1), Interval(0, 3, 2)>> >>,
      << <<Interval(0, 2, 0)>>, <<Interval(0, 2, 1)>>, <<Interval(0, 2, 2)>> >> }

\* the regions of a query on an index of n sequences: (chr, start, end)
Regions(n) ==
    {<<c, s, e>> : c \in 0..(n - 1), s \in 0..MaxCoord, e \in 1..(MaxCoord + 1)}
    \cup {<<0, 150, 350>>}

RECURSIVE FlattenSeq(_)
FlattenSeq(ss) == IF ss = <<>> THEN <<>> ELSE Head(ss) \o FlattenSeq(Tail(ss))

\* query_features(index_data, regions, contained, contains_region, invert):
\* the regions are bucketed by SID and every region of a SID is handed to
\* the tree of that SID; the three flags are not read.  chr_entries is a
\* hash map: the sequences are walked in the iteration order of the map,
\* which is any order of the SIDs, so the result is the set of the lists
\* the orders give
query_features(chr_entries, regions, contained, contains_region, invert) ==
    LET buckets == [c \in 1..Len(chr_entries) |->
                       SelectSeq(regions, LAMBDA r : r[1] = c - 1)]
        hits(c) == FlattenSeq([k \in 1..Len(buckets[c]) |->
                       serial_query_interval_rec(chr_entries[c],
                                                 buckets[c][k][2], buckets[c][k][3])])
    IN {FlattenSeq([j \in 1..Len(chr_entries) |->
           [k \in 1..Len(hits(p[j])) |->
               <<hits(p[j])[k].root_fid, hits(p[j])[k].start, hits(p[j])[k].end>>]]) :
         p \in Perms(Len(chr_entries))}

\* intersect::run up to the root set: query_features, then the roots of the
\* hits, each once
IntersectRun(regions, contained, contains_region, invert) ==
    /\ intersect.pc = "loaded"
    /\ \E feats \in query_features(intersect.chr_entries, regions,
                                     contained, contains_region, invert) :
          intersect' = [intersect EXCEPT
              !.regions = regions, !.contained = contained,
              !.contains_region = contains_region, !.invert = invert,
              !.feats = feats,
              !.roots = {feats[k][1] : k \in 1..Len(feats)},
              !.pc = "done"]
    /\ UNCHANGED <<resolver, gff, index, tree, coverage, depth, writer, extract, search>>

\* IndexData::load: one tree per SID
InitIntersect ==
    /\ intersect \in {[pc |-> "loaded",
                       root_intervals |-> ri,
                       chr_entries |-> [c \in 1..Len(ri) |-> build(ri[c])],
                       regions |-> <<>>, contained |-> FALSE,
                       contains_region |-> FALSE, invert |-> FALSE,
                       feats |-> <<>>, roots |-> {}] : ri \in RootIntervalSets}
    /\ resolver = IdleResolver /\ gff = IdleGff /\ index = IdleIndex /\ tree = IdleTree
    /\ coverage = IdleCoverage /\ depth = IdleDepth
    /\ writer = IdleWriter /\ extract = IdleExtract /\ search = IdleSearch

\* -c, -C and -O exclude each other (one clap group)
NextIntersect ==
    \E regions \in SeqsUpTo(Regions(Len(intersect.chr_entries)), MaxRegions) \ {<<>>},
       mode \in {"overlap", "contained", "contains_region"}, invert \in BOOLEAN :
        IntersectRun(regions, mode = "contained", mode = "contains_region", invert)

SpecIntersect == InitIntersect /\ [][NextIntersect]_vars

\* the roots a query has to select: the stored root intervals that stand in
\* the relation of the mode to one of the regions of their sequence
ModeHolds(iv, r, contained, contains_region) ==
    IF contained THEN r[2] <= iv.start /\ iv.end <= r[3]
    ELSE IF contains_region THEN iv.start <= r[2] /\ r[3] <= iv.end
    ELSE iv.start < r[3] /\ iv.end > r[2]

\* C5: the intersect query honors the three modes: overlap returns the
\* roots whose interval overlaps a region, contained only the roots whose
\* interval lies inside a region, contains_region only the roots whose
\* interval contains a region; so for g1 = [100,200), g2 = [300,400) and the
\* region 150-350 the modes contained and contains_region return no root.
C5_IntersectHonorsModes ==
    (intersect.pc = "done" /\ ~intersect.invert
        /\ \A k \in 1..Len(intersect.regions) :
              intersect.regions[k][2] < intersect.regions[k][3]) =>
        intersect.roots =
            {iv.root_fid : iv \in
                {iv \in UNION {Range(intersect.root_intervals[c]) :
                                 c \in 1..Len(intersect.root_intervals)} :
                    \E k \in 1..Len(intersect.regions) :
                        /\ iv \in Range(intersect.root_intervals[intersect.regions[k][1] + 1])
                        /\ ModeHolds(iv, intersect.regions[k],
                                     intersect.contained, intersect.contains_region)}}

(***************************************************************************)
(* 4.H Coverage breadth (commands/coverage.rs): merge_intervals, union_len *)
(* and compute_breadth_for_root.  Intervals are pairs <<s, e>>, half-open. *)
(***************************************************************************)
MaxCovCoord == 3    \* largest coordinate of a feature line or a region
MaxCovLines == 3    \* longest GFF slice of a root, in lines
MaxCovRegions == 2  \* most regions collected for a root

\* v.sort_unstable_by_key(..) for the keys `keys` of the elements of v: the
\* order of elements with equal keys is not specified, so the result is any
\* arrangement of v with ascending keys
sort_unstable_by_key(v, keys) ==
    {[i \in 1..Len(v) |-> v[p[i]]] :
        p \in {q \in Perms(Len(v)) :
                  \A i \in 1..(Len(v) - 1) : keys[q[i]] <= keys[q[i + 1]]}}

\* the first components of a list of pairs
Firsts(v) == [i \in 1..Len(v) |-> v[i][1]]

\* the test that extends the current run in merge_intervals
MergeTest(s, ce) == s <= ce

RECURSIVE MergeLoop(_, _, _, _)
\* the loop of merge_intervals over the sorted intervals behind the first
MergeLoop(rest, cs, ce, out) ==
    IF rest = <<>> THEN Append(out, <<cs, ce>>)
    ELSE LET s == Head(rest)[1]
             e == Head(rest)[2]
         IN IF MergeTest(s, ce)
            THEN MergeLoop(Tail(rest), cs, IF e > ce THEN e ELSE ce, out)
            ELSE MergeLoop(Tail(rest), s, e, Append(out, <<cs, ce>>))

\* merge_intervals(ivs): the results the sort allows
merge_intervals(ivs) ==
    IF ivs = <<>> THEN {<<>>}
    ELSE {MergeLoop(Tail(w), w[1][1], w[1][2], <<>>) :
             w \in sort_unstable_by_key(ivs, Firsts(ivs))}

\* mutant: no piece extends the current run, overlapping pieces add up
UnionTest_Never(s, ce) == FALSE
\* the test that extends the current run in union_len
UnionTest(s, ce) == s <= ce

RECURSIVE UnionLoop(_, _, _, _)
UnionLoop(rest, cs, ce, total) ==
    IF rest = <<>> THEN total + (ce - cs)
    ELSE LET s == Head(rest)[1]
             e == Head(rest)[2]
         IN IF UnionTest(s, ce)
            THEN UnionLoop(Tail(rest), cs, Max(ce, e), total)
            ELSE UnionLoop(Tail(rest), s, e, total + (ce - cs))

\* union_len(ivs): the results the sort allows
union_len(ivs) ==
    IF ivs = <<>> THEN {0}
    ELSE {UnionLoop(Tail(w), w[1][1], w[1][2], 0) :
             w \in sort_unstable_by_key(ivs, Firsts(ivs))}

RECURSIVE ParseSlice(_)
\* the FeatLines of a GFF slice, in file order: comments, lines without nine
\* columns, lines with end 0 and lines without ID= are passed over
ParseSlice(lines) ==
    IF lines = <<>> THEN <<>>
    ELSE LET l == Head(lines) IN
         IF l.kind # "feature" \/ l.e1 = 0 \/ l.id = None
         THEN ParseSlice(Tail(lines))
         ELSE <<[id |-> l.id, chrom |-> l.seqid,
                 start0 |-> saturating_sub(Min(l.s1, l.e1), 1),
                 end0 |-> Max(l.s1, l.e1)]>> \o ParseSlice(Tail(lines))

RECURSIVE AdvanceCov(_, _, _)
\* while j < cov.len() && cov[j].1 <= start0 { j += 1 }
AdvanceCov(cov, j, start0) ==
    IF j < Len(cov) /\ cov[j + 1][2] <= start0
    THEN AdvanceCov(cov, j + 1, start0) ELSE j

RECURSIVE OverlapPieces(_, _, _)
\* the inner walk from k over the coverage intervals that start before the
\* end of the feature line
OverlapPieces(cov, k, fl) ==
    IF k < Len(cov) /\ cov[k + 1][1] < fl.end0
    THEN LET s == Max(fl.start0, cov[k + 1][1])
             e == Min(fl.end0, cov[k + 1][2])
         IN (IF e > s THEN << <<s, e>> >> ELSE <<>>)
            \o (IF cov[k + 1][2] <= fl.end0 THEN OverlapPieces(cov, k + 1, fl) ELSE <<>>)
    ELSE <<>>

RECURSIVE Sweep(_, _, _, _)
\* the two-pointer scan over the sorted feature lines: id_overlap per ID
Sweep(lines, cov, j, id_overlap) ==
    IF lines = <<>> THEN id_overlap
    ELSE LET fl == Head(lines)
             j2 == AdvanceCov(cov, j, fl.start0)
         IN Sweep(Tail(lines), cov, j2,
                  [id_overlap EXCEPT ![fl.id] = @ \o OverlapPieces(cov, j2, fl)])

\* the lines of the GFF slices of the coverage model
CovLines ==
    {Feature("chr1", "exon", s1, e1, "a", None, None) :
        s1 \in 1..MaxCovCoord, e1 \in 1..MaxCovCoord}
    \cup {Feature("chr1", "exon", s1, MaxCovCoord, "b", None, None) : s1 \in 2..MaxCovCoord}
    \cup { Feature("chr1", "exon", 2, 0, "a", None, None),
           Feature("chr1", "exon", 1, 2, None, None, None),
           GffLine("comment", None, None, 0, 0, None, None, None) }

\* the regions collected for a root: s < e
CovRegions == {<<s, e>> \in (0..MaxCovCoord) \X (0..MaxCovCoord) : s < e}

\* the first position of an element with ID id in the parsed lines
FirstWithId(lines, id) ==
    CHOOSE i \in 1..Len(lines) : lines[i].id = id /\ \A j \in 1..(i - 1) : lines[j].id # id

\* compute_breadth_for_root(gff_slice, cov_merged): the maps it can return,
\* ID -> (chrom, min start, max end, breadth)
compute_breadth_for_root(gff_slice, cov_merged) ==
    LET parsed == ParseSlice(gff_slice)
        ids == {parsed[i].id : i \in 1..Len(parsed)}
        with(id) == {i \in 1..Len(parsed) : parsed[i].id = id}
        min_s(id) == CHOOSE x \in {parsed[i].start0 : i \in with(id)} :
                        \A i \in with(id) : x <= parsed[i].start0
        max_e(id) == CHOOSE x \in {parsed[i].end0 : i \in with(id)} :
                        \A i \in with(id) : x >= parsed[i].end0
    IN IF parsed = <<>> \/ cov_merged = <<>> THEN {<<>>}
       ELSE UNION {
              LET id_overlap == Sweep(lines, cov_merged, 0, [id \in ids |-> <<>>])
                  breadths == [id \in ids |-> union_len(id_overlap[id])]
              IN {[id \in ids |->
                      [chrom |-> parsed[FirstWithId(parsed, id)].chrom,
                       start |-> min_s(id), end |-> max_e(id), breadth |-> b[id]]] :
                    b \in {f \in [ids -> UNION {breadths[id] : id \in ids}] :
                              \A id \in ids : f[id] \in breadths[id]}}
              : lines \in sort_unstable_by_key(parsed,
                                  [i \in 1..Len(parsed) |-> parsed[i].start0])}

\* finalize_compute_breadth for one root: merge_intervals, then
\* compute_breadth_for_root on the root's slice
ComputeBreadth ==
    /\ coverage.pc = "input"
    /\ \E cov \in merge_intervals(coverage.ivs) :
         \E out \in compute_breadth_for_root(coverage.gff_slice, cov) :
            coverage' = [coverage EXCEPT !.cov_merged = cov, !.out = out, !.pc = "done"]
    /\ UNCHANGED <<resolver, gff, index, tree, intersect, depth, writer, extract, search>>

InitCoverage ==
    /\ coverage \in {[pc |-> "input", gff_slice |-> sl, ivs |-> ivs,
                      cov_merged |-> <<>>, out |-> <<>>] :
                        sl \in SeqsUpTo(CovLines, MaxCovLines),
                        ivs \in SeqsUpTo(CovRegions, MaxCovRegions) \ {<<>>}}
    /\ resolver = IdleResolver /\ gff = IdleGff /\ index = IdleIndex /\ tree = IdleTree
    /\ intersect = IdleIntersect /\ depth = IdleDepth
    /\ writer = IdleWriter /\ extract = IdleExtract /\ search = IdleSearch

NextCoverage == ComputeBreadth

SpecCoverage == InitCoverage /\ [][NextCoverage]_vars

\* the positions of [0, MaxCovCoord) that lie in a line of the slice carrying
\* `id` and in a collected region
CoveredOfId(id) ==
    {x \in 0..MaxCovCoord :
        /\ \E i \in 1..Len(ParseSlice(coverage.gff_slice)) :
              LET fl == ParseSlice(coverage.gff_slice)[i]
              IN fl.id = id /\ fl.start0 <= x /\ x < fl.end0
        /\ \E k \in 1..Len(coverage.ivs) :
              coverage.ivs[k][1] <= x /\ x < coverage.ivs[k][2]}

\* C6: for a root with collected regions and every feature ID found in the
\* root's slice, the breadth of the coverage pipeline equals the length of
\* the union, over the lines carrying the ID, of the line's half-open
\* interval intersected with the union of the collected regions.
C6_BreadthIsUnionLength ==
    coverage.pc = "done" =>
        \A i \in 1..Len(ParseSlice(coverage.gff_slice)) :
            LET id == ParseSlice(coverage.gff_slice)[i].id IN
            /\ id \in DOMAIN coverage.out
            /\ coverage.out[id].breadth = Cardinality(CoveredOfId(id))

\* C6 witness: two regions that do not merge, and an ID carried by two lines
\* that overlap each other, covered in part.
C6_Witness ==
    /\ coverage.pc = "done"
    /\ Len(coverage.cov_merged) = 2
    /\ \E i, j \in 1..Len(ParseSlice(coverage.gff_slice)) :
          LET a == ParseSlice(coverage.gff_slice)[i]
              b == ParseSlice(coverage.gff_slice)[j]
          IN /\ i # j /\ a.id = b.id
             /\ a.start0 < b.end0 /\ b.start0 < a.end0
             /\ coverage.out[a.id].breadth > 1
             /\ coverage.out[a.id].breadth < coverage.out[a.id].end - coverage.out[a.id].start

(***************************************************************************)
(* 4.H Depth (commands/depth.rs): compute_root_depth.  The lines of the    *)
(* slice are parsed as in coverage.rs (ParseSlice): the two loops are the  *)
(* same code.                                                              *)
(***************************************************************************)
MaxDepthLines == 2      \* longest GFF slice of a root, in lines
MaxDepthRegions == 2    \* most regions of a root

\* --bin-shift is any u32: 0 and 1 give several bins over the model's
\* coordinates, from 3 to 31 (12 is the default) every coordinate of the
\* model is in bin 0, and 32 and 33 are shifts of the width of u32 or more
BinShifts == {0, 1, 2, 12, 31, 32, 33}

\* "attempt to shift right with overflow"
Panic == -2

RECURSIVE shr(_, _)
\* x >> shift on u32 for shift < 32
shr(x, shift) == IF shift = 0 THEN x ELSE shr(x \div 2, shift - 1)

\* bin_of(x, shift) = x >> shift: the outcomes the builds give.  A shift of
\* 32 or more panics where overflow checks are compiled in (a debug build)
\* and shifts by shift mod 32 where they are not (a release build)
bin_of(x, shift) ==
    IF shift < 32 THEN {shr(x, shift)} ELSE {Panic, shr(x, shift % 32)}

\* the bin of x in a run in which bin_of returns
bin_value(x, shift) == CHOOSE v \in bin_of(x, shift) : v # Panic

\* overlaps(a1, a2, b1, b2): half-open
overlaps(a1, a2, b1, b2) == Max(a1, b1) < Min(a2, b2)

\* mutant: a feature is entered in the bin of its start only
FeatLastBin_StartOnly(f, shift) == bin_value(f.start0, shift)
\* b1, the last bin a feature is entered in
FeatLastBin(f, shift) == bin_value(saturating_sub(f.end0, 1), shift)

\* feat_bins: bin -> the indexes (0-based) of the features pushed to it
feat_bins(feats, shift) ==
    LET max_feat_bin == CHOOSE m \in {FeatLastBin(feats[i], shift) : i \in 1..Len(feats)} :
                           \A i \in 1..Len(feats) : m >= FeatLastBin(feats[i], shift)
    IN [b \in 0..max_feat_bin |->
           {i - 1 : i \in {k \in 1..Len(feats) :
                              bin_value(feats[k].start0, shift) <= b
                              /\ b <= FeatLastBin(feats[k], shift)}}]

\* cand of one region after sort_unstable and dedup
Candidates(bins, r, shift) ==
    SetToSortedSeq(UNION {bins[b] :
        b \in (bin_value(r[1], shift)..bin_value(saturating_sub(r[2], 1), shift))
              \cap DOMAIN bins})

RECURSIVE DepthLoop(_, _, _, _, _)
\* the loop over the regions; acc holds depths, min_s and max_e per ID
DepthLoop(regions, feats, bins, shift, acc) ==
    IF regions = <<>> THEN acc
    ELSE LET r == Head(regions)
             cand == Candidates(bins, r, shift)
             hits == {cand[k] + 1 : k \in {k \in 1..Len(cand) :
                         overlaps(feats[cand[k] + 1].start0, feats[cand[k] + 1].end0,
                                  r[1], r[2])}}
             hit_ids == {feats[i].id : i \in hits}
             lo(id) == Min(acc.min_s[id],
                           CHOOSE x \in {feats[i].start0 : i \in {h \in hits : feats[h].id = id}} :
                              \A i \in {h \in hits : feats[h].id = id} : x <= feats[i].start0)
             hi(id) == Max(acc.max_e[id],
                           CHOOSE x \in {feats[i].end0 : i \in {h \in hits : feats[h].id = id}} :
                              \A i \in {h \in hits : feats[h].id = id} : x >= feats[i].end0)
         IN DepthLoop(Tail(regions), feats, bins, shift,
               [depths |-> [id \in DOMAIN acc.depths |->
                               acc.depths[id] + IF id \in hit_ids THEN 1 ELSE 0],
                min_s |-> [id \in DOMAIN acc.depths |->
                               IF id \in hit_ids THEN lo(id) ELSE acc.min_s[id]],
                max_e |-> [id \in DOMAIN acc.depths |->
                               IF id \in hit_ids THEN hi(id) ELSE acc.max_e[id]]])

\* compute_root_depth(gff_slice, regions, bin_shift): the outcomes of the
\* call.  With features and regions the first bin_of is that of max_feat_bin:
\* where it panics the call panics, where it returns the call returns the map
\* ID -> (chrom, start, end, depth) of the IDs of depth > 0
compute_root_depth(gff_slice, regions, bin_shift) ==
    LET feats == ParseSlice(gff_slice)
        ids == {feats[i].id : i \in 1..Len(feats)}
    IN IF feats = <<>> \/ regions = <<>> THEN {[pc |-> "done", out |-> <<>>]}
       ELSE LET acc == DepthLoop(regions, feats, feat_bins(feats, bin_shift), bin_shift,
                                 [depths |-> [id \in ids |-> 0],
                                  min_s |-> [id \in ids |-> MAX_U32],
                                  max_e |-> [id \in ids |-> 0]])
                first == bin_of(saturating_sub(feats[1].end0, 1), bin_shift)
            IN {[pc |-> IF v = Panic THEN "panic" ELSE "done",
                 out |-> IF v = Panic THEN <<>>
                         ELSE [id \in {i \in ids : acc.depths[i] > 0} |->
                                 [chrom |-> feats[FirstWithId(feats, id)].chrom,
                                  start |-> IF acc.min_s[id] = MAX_U32 THEN 0
                                            ELSE acc.min_s[id],
                                  end |-> acc.max_e[id],
                                  depth |-> acc.depths[id]]]] : v \in first}

\* the regions handed to compute_root_depth: RegionRef { start, end }
DepthRegions == (0..MaxCovCoord) \X (0..(MaxCovCoord + 1))

ComputeRootDepth ==
    /\ depth.pc = "input"
    /\ \E o \in compute_root_depth(depth.gff_slice, depth.regions, depth.bin_shift) :
          depth' = [depth EXCEPT !.out = o.out, !.pc = o.pc]
    /\ UNCHANGED <<resolver, gff, index, tree, intersect, coverage, writer, extract, search>>

InitDepth ==
    /\ depth \in {[pc |-> "input", gff_slice |-> sl, regions |-> rs, bin_shift |-> k,
                   out |-> <<>>] :
                     sl \in SeqsUpTo(CovLines, MaxDepthLines),
                     rs \in SeqsUpTo(DepthRegions, MaxDepthRegions),
                     k \in BinShifts}
    /\ resolver = IdleResolver /\ gff = IdleGff /\ index = IdleIndex /\ tree = IdleTree
    /\ intersect = IdleIntersect /\ coverage = IdleCoverage
    /\ writer = IdleWriter /\ extract = IdleExtract /\ search = IdleSearch

NextDepth == ComputeRootDepth

SpecDepth == InitDepth /\ [][NextDepth]_vars

\* the regions (by position in the list) that overlap a line carrying `id`
RegionsHittingId(id) ==
    {k \in 1..Len(depth.regions) :
        \E i \in 1..Len(ParseSlice(depth.gff_slice)) :
            LET fl == ParseSlice(depth.gff_slice)[i]
            IN /\ fl.id = id
               /\ \E x \in 0..(MaxCovCoord + 1) :
                     /\ fl.start0 <= x /\ x < fl.end0
                     /\ depth.regions[k][1] <= x /\ x < depth.regions[k][2]}

\* C7: for every bin_shift from 0 to 31, slice and region list, the depth reported for a
\* feature ID is the number of regions whose half-open interval overlaps at
\* least one line of the ID (an ID that is not reported has depth 0): a
\* region hitting several lines or bins of an ID counts once and the bin
\* index loses no overlapping feature.
C7_DepthCountsRegionsOnce ==
    (depth.pc = "done" /\ depth.bin_shift \in 0..31) =>
        \A i \in 1..Len(ParseSlice(depth.gff_slice)) :
            LET id == ParseSlice(depth.gff_slice)[i].id IN
            (IF id \in DOMAIN depth.out THEN depth.out[id].depth ELSE 0)
                = Cardinality(RegionsHittingId(id))

\* C7 witness: bins of width 1 or 2, two lines of one ID in different bins,
\* one region over both lines and a second region over one of them.
C7_Witness ==
    /\ depth.pc = "done"
    /\ depth.bin_shift \in {0, 1}
    /\ Len(depth.regions) = 2
    /\ \E i, j \in 1..Len(ParseSlice(depth.gff_slice)) :
          LET a == ParseSlice(depth.gff_slice)[i]
              b == ParseSlice(depth.gff_slice)[j]
              r == depth.regions[1]
          IN /\ a.id = b.id
             /\ bin_value(a.start0, depth.bin_shift) # bin_value(b.start0, depth.bin_shift)
             /\ overlaps(a.start0, a.end0, r[1], r[2])
             /\ overlaps(b.start0, b.end0, r[1], r[2])
             /\ a.id \in DOMAIN depth.out
             /\ depth.out[a.id].depth = 2

(***************************************************************************)
(* 4.E Whole-block writer (utils/common.rs, write_gff_output).  A block is *)
(* <<root, start, end>>; the output is the sequence of the file offsets of *)
(* the bytes written.                                                      *)
(***************************************************************************)
MaxBlocks == 3      \* longest block list handed to the writer
MaxFileLen == 4     \* largest length of the GFF file, in bytes

MAX_IOV == 1024     \* slices per write_vectored call

\* mutant: a block never extends the current run
WriterMergeTest_Never(s, ce) == FALSE
\* the test that extends the current run of the merge
WriterMergeTest(s, ce) == s <= ce

RECURSIVE WriterMergeLoop(_, _, _, _)
\* the loop of the merge over the sorted ranges behind the first
WriterMergeLoop(rest, cs, ce, merged) ==
    IF rest = <<>> THEN (IF cs < ce THEN Append(merged, <<cs, ce>>) ELSE merged)
    ELSE LET s == Head(rest)[1]
             e == Head(rest)[2]
         IN IF WriterMergeTest(s, ce)
            THEN WriterMergeLoop(Tail(rest), cs, Max(ce, e), merged)
            ELSE WriterMergeLoop(Tail(rest), s, e,
                                 IF cs < ce THEN Append(merged, <<cs, ce>>) ELSE merged)

\* `merged` of write_gff_output: the results the sort allows
MergedBlocks(blocks) ==
    LET ranges == [i \in 1..Len(blocks) |-> <<blocks[i][2], blocks[i][3]>>]
    IN IF ranges = <<>> THEN {<<>>}
       ELSE {WriterMergeLoop(Tail(w), w[1][1], w[1][2], <<>>) :
                w \in sort_unstable_by_key(ranges, Firsts(ranges))}

\* the IoSlice list: empty ranges and ranges past the end of the file are
\* passed over
IoSlices(merged, file_len) ==
    SelectSeq(merged, LAMBDA r : ~(r[1] >= r[2]) /\ ~(r[2] > file_len))

\* the file offsets of the bytes of a slice
SliceBytes(r) == [i \in 1..(r[2] - r[1]) |-> r[1] + i - 1]

\* one turn of the batch loop: write_vectored has written the first nw bytes
\* of the batch; the slices it wrote whole are counted off, the rest of a
\* slice written in part and the slices behind it are written with write_all
WriteBatch(batch, nw) ==
    LET all == FlattenSeq([k \in 1..Len(batch) |-> SliceBytes(batch[k])])
        len(k) == batch[k][2] - batch[k][1]
        before(k) == SumSeq([m \in 1..(k - 1) |-> len(m)])
        \* i: the slices with `remaining >= batch[i].len()` at their turn
        i == Cardinality({k \in 1..Len(batch) : before(k) + len(k) <= nw})
        remaining == nw - before(i + 1)
        cur == IF i < Len(batch) /\ remaining > 0
               THEN SubSeq(SliceBytes(batch[i + 1]), remaining + 1, len(i + 1))
               ELSE <<>>
        i2 == IF i < Len(batch) /\ remaining > 0 THEN i + 1 ELSE i
    IN SubSeq(all, 1, nw) \o cur
       \o FlattenSeq([k \in 1..(Len(batch) - i2) |-> SliceBytes(batch[i2 + k])])

\* write_gff_output(gff_path, blocks, output_path, verbose): the runs the
\* sort and write_vectored allow; the lists of the model fit in one batch of
\* MAX_IOV slices
write_gff_output(blocks, file_len) ==
    UNION {LET slices == IoSlices(merged, file_len)
               batch == SubSeq(slices, 1, Min(MAX_IOV, Len(slices)))
           IN {[merged |-> merged, slices |-> slices, nw |-> nw,
                written |-> WriteBatch(batch, nw)] :
                 nw \in 0..SumSeq([k \in 1..Len(batch) |-> batch[k][2] - batch[k][1]])}
           : merged \in MergedBlocks(blocks)}

WriteGffOutput ==
    /\ writer.pc = "input"
    /\ \E o \in write_gff_output(writer.blocks, writer.file_len) :
          writer' = [writer EXCEPT !.merged = o.merged, !.slices = o.slices,
                                   !.nw = o.nw, !.written = o.written, !.pc = "done"]
    /\ UNCHANGED <<resolver, gff, index, tree, intersect, coverage, depth, extract, search>>

\* block lists in any order, with duplicates, empty and inverted ranges and
\* ranges that end behind the file
InitWriter ==
    /\ writer \in {[pc |-> "input", blocks |-> bs, file_len |-> MaxFileLen,
                    merged |-> <<>>, slices |-> <<>>, nw |-> 0, written |-> <<>>] :
                      bs \in SeqsUpTo({0} \X (0..(MaxFileLen + 1)) \X (0..(MaxFileLen + 1)),
                                      MaxBlocks)}
    /\ resolver = IdleResolver /\ gff = IdleGff /\ index = IdleIndex /\ tree = IdleTree
    /\ intersect = IdleIntersect /\ coverage = IdleCoverage /\ depth = IdleDepth
    /\ extract = IdleExtract /\ search = IdleSearch

NextWriter == WriteGffOutput

SpecWriter == InitWriter /\ [][NextWriter]_vars

\* C8: for every block list the byte ranges write_gff_output writes are
\* non-empty, pairwise disjoint and in strictly increasing start order: no
\* byte of the file is written twice and the output follows source order.
C8_WrittenRangesDisjointIncreasing ==
    writer.pc = "done" =>
        /\ \A k \in 1..Len(writer.slices) : writer.slices[k][1] < writer.slices[k][2]
        /\ \A k \in 1..(Len(writer.slices) - 1) :
              /\ writer.slices[k][1] < writer.slices[k + 1][1]
              /\ writer.slices[k][2] <= writer.slices[k + 1][1]
        /\ \A k \in 1..(Len(writer.written) - 1) :
              writer.written[k] < writer.written[k + 1]
        /\ writer.written = FlattenSeq([k \in 1..Len(writer.slices) |->
                                           SliceBytes(writer.slices[k])])

\* C8 witness: three blocks out of order, two of them overlapping, written
\* as two ranges, the first write ending inside a range.
C8_Witness ==
    /\ writer.pc = "done"
    /\ Len(writer.blocks) = 3
    /\ writer.blocks[1][2] > writer.blocks[2][2]
    /\ Len(writer.slices) = 2
    /\ \E i, j \in 1..3 :
          /\ i # j
          /\ writer.blocks[i][2] < writer.blocks[j][2]
          /\ writer.blocks[j][2] < writer.blocks[i][3]
          /\ writer.blocks[j][2] < writer.blocks[j][3]
    /\ writer.nw > 0 /\ writer.nw < writer.slices[1][2] - writer.slices[1][1]

(***************************************************************************)
(* 4.F Extract (extract/mod.rs).  The loaders hand the arrays written by   *)
(* build_index to the query: fts (names), prt (parents), gof (records).    *)
(* Three functions run calls are not part of the sources and are modelled  *)
(* after the specification: extract_root_matches (4.F steps 2-3: names ->  *)
(* FIDs through the reverse .fts map, resolver with a step cap, invalid    *)
(* FIDs dropped), the free roots_to_offsets over gof_map (4.F step 4) and  *)
(* the write_gff_output that takes (start, end) pairs and --types (4.E).   *)
(* --types is not given.                                                   *)
(***************************************************************************)

\* fts_map of run: name -> FID, a later line replaces an earlier
fts_map(fts) ==
    [name \in Range(fts) |->
        (CHOOSE i \in 1..Len(fts) :
            fts[i] = name /\ \A j \in 1..Len(fts) : fts[j] = name => j <= i) - 1]

\* GofMap::index, and gof_map of run: root -> (start, end), a later record
\* replaces an earlier
GofIndex(gof) ==
    [r \in {gof[i].id : i \in 1..Len(gof)} |->
        LET i == CHOOSE i \in 1..Len(gof) :
                    gof[i].id = r /\ \A j \in 1..Len(gof) : gof[j].id = r => j <= i
        IN <<gof[i].start, gof[i].end>>]

\* GofMap::roots_to_offsets: the blocks of the roots, roots without record
\* left out
roots_to_offsets(roots, gof) ==
    LET idx == GofIndex(gof)
        found == SelectSeq(roots, LAMBDA r : r \in DOMAIN idx)
    IN [k \in 1..Len(found) |-> <<found[k], idx[found[k]][1], idx[found[k]][2]>>]

\* the free function roots_to_offsets(&roots, &gof_map) of run: the blocks
\* (root, start, end) of the roots in the order of `roots`, a root that is
\* no key of the map is skipped
extract_roots_to_offsets(roots, gof_map) ==
    LET found == SelectSeq(roots, LAMBDA r : r \in DOMAIN gof_map)
    IN [k \in 1..Len(found) |-> <<found[k], gof_map[found[k]][1], gof_map[found[k]][2]>>]

\* write_gff_output(gff_path, &block_offsets, output, types, verbose) of run,
\* without --types: the whole-block writer of 4.E on the (start, end) pairs
extract_write_gff_output(block_offsets, file_len) ==
    {o.written :
        o \in write_gff_output([k \in 1..Len(block_offsets) |->
                                   <<0, block_offsets[k][1], block_offsets[k][2]>>],
                               file_len)}

\* the resolver of the specification: a walk that has not ended after a
\* number of steps proportional to N is classified invalid
resolve_root_capped(entries, start) ==
    LET r == resolve_root(entries, start) IN IF r = Hang THEN MAX_U32 ELSE r

\* extract_root_matches: root -> the requested FIDs that resolve to it
extract_root_matches(feature_ids, fts, prt) ==
    LET fm == fts_map(fts)
        fids == {fm[n] : n \in feature_ids \cap DOMAIN fm}
        valid == {f \in fids : resolve_root_capped(prt, f) # MAX_U32}
    IN [r \in {resolve_root_capped(prt, f) : f \in valid} |->
           {f \in valid : resolve_root_capped(prt, f) = r}]

\* memmem::find(attr, b"ID=") and the slice up to ';' or the end of the line:
\* the value after the first occurrence of the bytes "ID=" in column 9, which
\* is also found inside the key of an attribute XID=v
id_find(l) == IF l.idkey \in {"ID", "XID"} THEN l.id ELSE None

\* id_hits_keep: the value found after "ID=" is in the keep-set of the block
id_hits_keep(l, keep) == id_find(l) # None /\ id_find(l) \in keep

\* the bytes of line i of the file, as file offsets
LineBytes(lines, i) ==
    [k \in 1..LineLen(lines[i]) |-> LineOffset(lines, i) + k - 1]

\* write_gff_output_filtered of extract/mod.rs: per block the lines of the
\* window that are no comments and for which id_hits_keep holds, columns 4
\* and 5 not being read; the parts are sorted by the start of their block
extract_write_filtered(lines, blocks, per_root_matches, fts) ==
    LET file_len == FileLen(lines)
        keep(b) == {fts[n + 1] : n \in {m \in per_root_matches[b[1]] : m < Len(fts)}}
        window(b) == SelectSeq([i \in 1..Len(lines) |-> i], LAMBDA i :
                        /\ b[2] <= LineOffset(lines, i)
                        /\ LineOffset(lines, i) < Min(b[3], file_len))
        hits(b) == SelectSeq(window(b), LAMBDA i :
                        /\ lines[i].kind # "comment"
                        /\ id_hits_keep(lines[i], keep(b)))
        out(b) == FlattenSeq([k \in 1..Len(hits(b)) |-> LineBytes(lines, hits(b)[k])])
        parts == SelectSeq(blocks, LAMBDA b :
                    /\ b[1] \in DOMAIN per_root_matches
                    /\ per_root_matches[b[1]] # {}
                    /\ keep(b) # {}
                    /\ b[2] < Min(b[3], file_len)
                    /\ out(b) # <<>>)
    IN {FlattenSeq([k \in 1..Len(w) |-> out(w[k])]) :
           w \in sort_unstable_by_key(parts, [k \in 1..Len(parts) |-> parts[k][2]])}

\* extract::run(args).  io_ok: the index files and the GFF file can be read
\* and the output can be created; where one of them fails the `?` of run
\* returns the error.  There is no other error return after the names are
\* read: with no block to write the writer is called with an empty list.
ExtractRun(feature_ids, full_model, io_ok) ==
    /\ index.pc = "built"
    /\ extract.pc = "idle"
    /\ LET root_matches == extract_root_matches(feature_ids, index.fts, index.prt)
           roots == SetToSortedSeq(DOMAIN root_matches)
           root_blocks == extract_roots_to_offsets(roots, GofIndex(index.gof))
           block_offsets == [k \in 1..Len(root_blocks) |->
                               <<root_blocks[k][2], root_blocks[k][3]>>]
       IN IF ~io_ok
          THEN extract' = [pc |-> "error", feature_ids |-> feature_ids,
                           full_model |-> full_model, io_ok |-> FALSE, roots |-> <<>>,
                           root_blocks |-> <<>>, written |-> <<>>]
          ELSE \E written \in
                  IF full_model
                  THEN extract_write_gff_output(block_offsets, FileLen(gff.lines))
                  ELSE extract_write_filtered(gff.lines, root_blocks, root_matches,
                                              index.fts) :
                extract' = [pc |-> "done", feature_ids |-> feature_ids,
                            full_model |-> full_model, io_ok |-> TRUE, roots |-> roots,
                            root_blocks |-> root_blocks, written |-> written]
    /\ UNCHANGED <<resolver, gff, index, tree, intersect, coverage, depth, writer, search>>

\* the names given with -e or -E; "q" is the ID of no line
FeatureIdSets == (SUBSET {"a", "b", "c", "q"}) \ {{}}

\* the lines of the files extract reads: those of the builder, a line
\* whose column 9 is XID=a, and a nine-column line of type region with ID=a
\* whose start is no number, which build_index passes over when the type
\* is skipped
ExtractLines ==
    GffLines \cup {FeatureIdKey("chr1", "gene", 2, 3, "XID", "a", None, None),
                   GffLine("unparsable", "chr1", "region", 0, 0, "a", None, None)}

InitExtract ==
    /\ gff \in {[pc |-> "input", lines |-> ls, skip_types |-> sk] :
                  ls \in SeqsUpTo(ExtractLines, MaxLines), sk \in SkipTypeSets}
    /\ index = IdleIndex
    /\ resolver = IdleResolver /\ tree = IdleTree
    /\ intersect = IdleIntersect /\ coverage = IdleCoverage /\ depth = IdleDepth
    /\ writer = IdleWriter /\ extract = IdleExtract /\ search = IdleSearch

NextExtract ==
    \/ BuildIndex
    \/ \E feature_ids \in FeatureIdSets, full_model \in BOOLEAN, io_ok \in BOOLEAN :
          ExtractRun(feature_ids, full_model, io_ok)

SpecExtract == InitExtract /\ [][NextExtract]_vars

RECURSIVE ChainFrom(_, _, _)
\* the FIDs on the parent chain of f, followed for at most k steps
ChainFrom(prt, f, k) ==
    IF k = 0 \/ f >= Len(prt) THEN {f}
    ELSE {f} \cup ChainFrom(prt, prt[f + 1], k - 1)

\* the roots the requested names resolve to: the self-parent entries on the
\* parent chains of their FIDs
RequestedRoots ==
    {r \in 0..(Len(index.prt) - 1) :
        /\ index.prt[r + 1] = r
        /\ \E n \in extract.feature_ids \cap Range(index.fts) :
              r \in ChainFrom(index.prt, fts_map(index.fts)[n], Len(index.prt))}

\* the file offsets inside the GOF blocks of the requested roots
RequestedBlockBytes ==
    UNION {{x \in 0..(FileLen(gff.lines) - 1) :
              GofIndex(index.gof)[r][1] <= x /\ x < GofIndex(index.gof)[r][2]} :
           r \in RequestedRoots \cap DOMAIN GofIndex(index.gof)}

\* the value of the attribute ID of column 9 of line l, None without one
IdAttr(l) == IF l.idkey = "ID" THEN l.id ELSE None

\* C9: in full-model mode extract emits verbatim the whole GOF block of the
\* root of every requested ID, every block once and in file order: the
\* output is the bytes of these blocks in ascending offset order.  In
\* feature-only mode it emits only lines whose ID is a requested ID: the
\* output consists of whole lines of the file, in file order, each a line
\* whose attribute ID has a requested value.
C9_ExtractBlocksOrRequestedLines ==
    extract.pc = "done" =>
        IF extract.full_model
        THEN extract.written = SetToSortedSeq(RequestedBlockBytes)
        ELSE \E emitted \in SUBSET (1..Len(gff.lines)) :
                /\ extract.written =
                      SetToSortedSeq(UNION {Range(LineBytes(gff.lines, i)) : i \in emitted})
                /\ \A i \in emitted : IdAttr(gff.lines[i]) \in extract.feature_ids

(***************************************************************************)
(* 4.F Search (commands/search.rs), exact mode, with --entire-group and    *)
(* without --types: the blocks go to write_gff_output.                     *)
(***************************************************************************)

\* line.starts_with('#') for the attribute values of the model
StartsWithHash(v) == v \in {"#z"}

\* load_atn: the lines of .atn behind the header; a line that starts with
\* '#' is not a value
load_atn(atn) == SelectSeq(atn, LAMBDA v : ~StartsWithHash(v))

\* load_a2f: aid_to_fids, AID -> the FIDs with that AID, sorted and deduped
load_a2f(a2f) ==
    [aid \in {a2f[i] : i \in 1..Len(a2f)} \ {MAX_U32} |->
        SetToSortedSeq({i - 1 : i \in {k \in 1..Len(a2f) : a2f[k] = aid}})]

\* A2fMap::map_aids_to_fids_vec
map_aids_to_fids_vec(aid_to_fids, aids) ==
    FlattenSeq([k \in 1..Len(aids) |->
        IF aids[k] \in DOMAIN aid_to_fids THEN aid_to_fids[aids[k]] ELSE <<>>])

\* PrtMap::map_fids_to_roots: the root of every FID, the sentinel kept; an
\* element is Hang when resolve_root does not return for it
map_fids_to_roots(entries, fids) ==
    [k \in 1..Len(fids) |->
        IF fids[k] = MAX_U32 THEN MAX_U32 ELSE resolve_root(entries, fids[k])]

\* Regex::new(p).is_match(val) for the patterns and values of the model: "."
\* matches every value, any other pattern is the text of one value
RegexIsMatch(p, val) == p = "." \/ p = val

\* mutant: every value of .atn is taken as matched
IsMatch_Any(attr_values, val, regex) == TRUE

\* step 1 of run, the test of one .atn value: a pattern matches it (-r), or
\* it is one of the wanted values
IsMatch(attr_values, val, regex) ==
    IF regex THEN \E p \in attr_values : RegexIsMatch(p, val)
    ELSE val \in attr_values

\* commands::search::run(args): the states it can end in
search_run(attr_values, regex, lines, idx) ==
    LET atn_values == load_atn(idx.atn)
        matched == {v \in Range(atn_values) : IsMatch(attr_values, v, regex)}
        attr_to_aids == [v \in matched |->
            SelectSeq([i \in 1..Len(atn_values) |-> i - 1],
                      LAMBDA i : atn_values[i + 1] = v)]
        a2f == load_a2f(idx.a2f)
        fids_of(v) == SetToSortedSeq(Range(map_aids_to_fids_vec(a2f, attr_to_aids[v])))
        attr_to_fids == [v \in {w \in matched : fids_of(w) # <<>>} |-> fids_of(v)]
        fid_vec == SetToSortedSeq(UNION {Range(attr_to_fids[v]) : v \in DOMAIN attr_to_fids})
        root == map_fids_to_roots(idx.prt, fid_vec)
        roots_effective == SetToSortedSeq(Range(root) \ {MAX_U32})
        blocks == roots_to_offsets(roots_effective, idx.gof)
        end(pc, written) == [pc |-> pc, attr_values |-> attr_values, regex |-> regex,
                             output_created |-> pc = "done",
                             fid_vec |-> IF matched = {} THEN <<>> ELSE fid_vec,
                             roots |-> IF pc = "done" THEN roots_effective ELSE <<>>,
                             written |-> written]
    IN IF matched = {} THEN {end("error", <<>>)}
       ELSE IF DOMAIN attr_to_fids = {} THEN {end("error", <<>>)}
       ELSE IF Hang \in Range(root) THEN {end("hang", <<>>)}
       ELSE IF roots_effective = <<>> THEN {end("error", <<>>)}
       ELSE {end("done", o.written) : o \in write_gff_output(blocks, FileLen(lines))}

SearchRun(attr_values, regex) ==
    /\ index.pc = "built"
    /\ search.pc = "idle"
    /\ search' \in search_run(attr_values, regex, gff.lines, index)
    /\ UNCHANGED <<resolver, gff, index, tree, intersect, coverage, depth, writer, extract>>

\* the values given with -a or -A; "w" is the value of no line
AttrValueSets == (SUBSET {"x", "y", "#z", "w", "."}) \ {{}}

NextSearch ==
    \/ BuildIndex
    \/ \E attr_values \in AttrValueSets, regex \in BOOLEAN : SearchRun(attr_values, regex)

SpecSearch == InitBuild /\ [][NextSearch]_vars

\* the AIDs whose .atn value is a queried value, the FIDs that carry one of
\* them in .a2f and the roots of these FIDs
QueriedAids == {k \in 0..(Len(index.atn) - 1) : index.atn[k + 1] \in search.attr_values}
QueriedFids == {f \in 0..(Len(index.a2f) - 1) : index.a2f[f + 1] \in QueriedAids}
QueriedRoots ==
    {r \in 0..(Len(index.prt) - 1) :
        /\ index.prt[r + 1] = r
        /\ \E f \in QueriedFids : r \in ChainFrom(index.prt, f, Len(index.prt))}
QueriedBlockBytes ==
    UNION {{x \in 0..(FileLen(gff.lines) - 1) :
              GofIndex(index.gof)[r][1] <= x /\ x < GofIndex(index.gof)[r][2]} :
           r \in QueriedRoots \cap DOMAIN GofIndex(index.gof)}

\* C10: search in exact mode selects exactly the AIDs whose .atn value is a
\* queried value, maps them through .a2f to all FIDs carrying one of them,
\* and in full-model mode emits the whole block of the root of every such
\* FID and no other block; it fails only when there is no block to emit.
C10_SearchExactEmitsBlocksOfMatches ==
    (search.pc # "idle" /\ ~search.regex) =>
        /\ search.pc # "hang"
        /\ search.pc = "done" => search.written = SetToSortedSeq(QueriedBlockBytes)
        /\ search.pc = "error" => QueriedBlockBytes = {}

(***************************************************************************)
(* 4.B Index builder, run again on the file it has indexed.  The artifacts *)
(* of the first run are on disk when the second run opens them, and each   *)
(* run has a hasher of its own.                                            *)
(***************************************************************************)

\* the mutant of File::create: the file is opened for appending
FileCreate_Append(old) == old

\* File::create(path): an existing file is truncated
FileCreate(old) == <<>>

\* File::create followed by the writes of the run
WriteFile(old, content) == FileCreate(old) \o content

\* mutant: .fts and .gof are created before the first pass
ArtifactsAtBail_Created(old) ==
    IF old.pc = "built" THEN [old EXCEPT !.fts = <<>>, !.gof = <<>>] ELSE old
\* the artifacts when the first pass returns its error: no File::create has
\* run yet
ArtifactsAtBail(old) == old

\* build_index over the artifacts `old` of an earlier run; `bail!` of the
\* first pass comes before the first File::create
WriteArtifacts(old, new) ==
    IF new.pc = "error" THEN ArtifactsAtBail(old)
    ELSE LET prev(f) == IF old.pc = "built" THEN old[f] ELSE <<>>
         IN [pc |-> "built",
             raw_features |-> new.raw_features,
             fts |-> WriteFile(prev("fts"), new.fts),
             prt |-> WriteFile(prev("prt"), new.prt),
             a2f |-> WriteFile(prev("a2f"), new.a2f),
             atn |-> WriteFile(prev("atn"), new.atn),
             gof |-> WriteFile(prev("gof"), new.gof),
             sqs |-> WriteFile(prev("sqs"), new.sqs),
             trees |-> WriteFile(prev("trees"), new.trees)]

\* build_index on the unchanged file, same attribute key and skip types, in
\* a run of its own: the hasher of this run has its own order, and the
\* artifacts of the first run are on disk
RebuildIndex(hash_order) ==
    /\ gff.pc = "indexed"
    /\ index' = WriteArtifacts(index, BuiltIndex(gff.lines, gff.skip_types, hash_order))
    /\ gff' = [pc |-> "rebuilt", lines |-> gff.lines, skip_types |-> gff.skip_types,
               first |-> index, hash_order |-> hash_order]
    /\ UNCHANGED <<resolver, tree, intersect, coverage, depth, writer, extract, search>>

NextRebuild ==
    \/ BuildIndex
    \/ \E hash_order \in HashOrders : RebuildIndex(hash_order)

SpecRebuild == InitBuild /\ [][NextRebuild]_vars

LineOfFeature(i) ==
    gff.lines[CHOOSE j \in 1..Len(gff.lines) :
                 LineOffset(gff.lines, j) = index.raw_features[i].line_offset]

\* C12: after build_index with attribute key K, for every FID the entry
\* .a2f[FID] is MAX_U32 if and only if the feature line of that FID has no
\* attribute K.
C12_A2fSentinelIffNoAttr ==
    index.pc = "built" =>
        \A i \in KeptFeatures :
            index.a2f[i] = MAX_U32 <=> LineOfFeature(i).key # attr_key

\* the kept records whose ID is `name`, as FIDs
FidsNamed(name) == {j - 1 : j \in {k \in KeptFeatures : LineOfFeature(k).id = name}}

\* C13: the kept record at position i of the kept-line sequence has FID i:
\* line i of .fts is its ID, and .prt[i] is i when the record has no Parent
\* or its Parent names no kept feature, and otherwise the FID of a feature
\* whose ID the Parent names.
C13_FidIsKeptPosition ==
    index.pc = "built" =>
        \A i \in KeptFeatures :
            LET l == LineOfFeature(i) IN
            /\ index.fts[i] = l.id
            /\ IF l.parent = None \/ FidsNamed(l.parent) = {}
               THEN index.prt[i] = i - 1
               ELSE index.prt[i] \in FidsNamed(l.parent)

\* C14: every .prt array written by build_index is a forest: each entry is
\* smaller than N, and following parent[] from any FID reaches an entry that
\* is its own parent in fewer than N steps, whatever Parent= attributes the
\* input has.
C14_PrtIsForest ==
    index.pc = "built" =>
        LET N == Len(index.prt) IN
        \A f \in 0..(N - 1) :
            /\ index.prt[f + 1] < N
            /\ \E r \in ChainFrom(index.prt, f, N - 1) : r < N /\ index.prt[r + 1] = r

\* C15: the attribute table round-trips between builder and loader: distinct
\* attribute values get distinct AIDs 0, 1, 2, ... in first-seen order, and
\* for every FID whose line carries K=v the list `values` that load_atn
\* returns for the .atn of build_index has values[a2f[FID]] = v.
C15_AtnRoundTrip ==
    index.pc = "built" =>
        LET values == load_atn(index.atn)
            with == {i \in KeptFeatures : index.a2f[i] # MAX_U32}
        IN /\ \A i, j \in with :
                 index.a2f[i] = index.a2f[j]
                     <=> index.raw_features[i].attr = index.raw_features[j].attr
           /\ \A i \in with :
                 index.a2f[i] <= Cardinality({index.a2f[j] : j \in {k \in with : k < i}})
           /\ \A i \in KeptFeatures :
                 LineOfFeature(i).key = attr_key =>
                     /\ index.a2f[i] < Len(values)
                     /\ values[index.a2f[i] + 1] = LineOfFeature(i).attr

\* C16: the GOF records are in root-appearance order; each record starts at
\* the line offset of its root and ends exactly where the next record
\* starts, and the last record ends at the length of the GFF file; so the
\* start offsets strictly increase and the blocks are disjoint and contiguous.
C16_GofContiguousInRootOrder ==
    index.pc = "built" =>
        LET g == index.gof
            roots == SetToSortedSeq({f \in 0..(Len(index.prt) - 1) : index.prt[f + 1] = f})
        IN /\ [k \in 1..Len(g) |-> g[k].id] = roots
           /\ \A k \in 1..Len(g) :
                 /\ g[k].start = index.raw_features[g[k].id + 1].line_offset
                 /\ g[k].start < g[k].end
                 /\ g[k].end = IF k < Len(g) THEN g[k + 1].start ELSE FileLen(gff.lines)

(***************************************************************************)
(* 4.D PrtMap::map_fids_to_roots on a whole vector, with its thread budget *)
(***************************************************************************)
MaxFids == 2        \* longest short input vector of FIDs

\* `fids.len() > 256` of should_parallel
ParThreshold == 256

RECURSIVE MapSequential(_, _, _, _)
\* the sequential path, `for &fid in fids { out.push(..) }`: the elements
\* pushed for the positions lo..hi of fids, in the order of the loop
MapSequential(entries, fids, lo, hi) ==
    IF lo > hi THEN <<>>
    ELSE IF lo = hi
    THEN <<IF fids[lo] = MAX_U32 THEN MAX_U32 ELSE resolve_root(entries, fids[lo])>>
    ELSE LET mid == (lo + hi) \div 2
         IN MapSequential(entries, fids, lo, mid) \o MapSequential(entries, fids, mid + 1, hi)

\* the input vectors: the short ones, and one longer than the threshold that
\* holds every FID of 0..n and the sentinel
FidVectors(n) ==
    SeqsUpTo((0..n) \cup {MAX_U32}, MaxFids)
        \cup {[k \in 1..(ParThreshold + 1) |-> IF k = 2 THEN MAX_U32 ELSE k % (n + 1)]}

\* map_fids_to_roots(fids, threads): par_iter().map().collect() gives the
\* element of position k the result of fids[k]; a call of resolve_root that
\* does not return leaves the whole call without a result
MapFidsToRoots(fids, threads) ==
    /\ resolver.pc = "idle"
    /\ LET should_parallel == threads > 1 /\ Len(fids) > ParThreshold
           out == IF should_parallel
                  THEN map_fids_to_roots(resolver.entries, fids)
                  ELSE MapSequential(resolver.entries, fids, 1, Len(fids))
       IN resolver' = [entries |-> resolver.entries, fids |-> fids, threads |-> threads,
                       out |-> IF Hang \in Range(out) THEN <<>> ELSE out,
                       pc |-> IF Hang \in Range(out) THEN "hang" ELSE "mapped"]
    /\ UNCHANGED <<gff, index, tree, intersect, coverage, depth, writer, extract, search>>

NextMapRoots ==
    \E fids \in FidVectors(Len(resolver.entries)), threads \in {1, 2} :
        MapFidsToRoots(fids, threads)

SpecMapRoots == InitResolver /\ [][NextMapRoots]_vars

\* the root of fid by the words of the specification: MAX_U32 when the FID
\* or a parent met on the way is >= N, else the self-parent entry reached
RootOf(entries, fid) ==
    LET N == Len(entries)
        chain == ChainFrom(entries, fid, N)
    IN IF \E c \in chain : c >= N THEN {MAX_U32}
       ELSE {r \in chain : entries[r + 1] = r}

\* C17: for every parent array and every vector of FIDs, map_fids_to_roots
\* returns a vector of the same length whose entry i is the root reached from
\* fids[i], or MAX_U32 when fids[i] or a parent met on the way is >= N; the
\* parallel path returns the same vector as the sequential path.
C17_MapFidsToRootsResolvesEach ==
    resolver.pc \in {"mapped", "hang"} =>
        /\ resolver.pc = "mapped"
        /\ Len(resolver.out) = Len(resolver.fids)
        /\ \A i \in 1..Len(resolver.fids) :
              resolver.out[i] \in RootOf(resolver.entries, resolver.fids[i])
        /\ resolver.out = MapSequential(resolver.entries, resolver.fids, 1, Len(resolver.fids))

(***************************************************************************)
(* 4.E Filtered writer (utils/common.rs, write_gff_output_filtered), with  *)
(* the per-block tasks of its par_iter as steps of their own: a task may   *)
(* finish before or after any other.                                       *)
(***************************************************************************)
MaxTasks == 3       \* most blocks handed to the filtered writer

\* the lines of the files the filtered writer reads
FilteredLines ==
    { Feature("chr1", "gene", 1, 2, "a", None, "x"),
      Feature("chr2", "gene", 2, 3, "b", None, "x"),
      Feature("chr1", "exon", 2, 1, "c", "b", "y"),
      Feature("chr1", "gene", 3, 3, "d", None, "#z"),
      FeatureKey("chr1", "gene", 2, 3, "e", None, "XK", "x"),
      GffLine("unparsable", "chr1", "region", 0, 0, "e", None, "y"),
      GffLine("comment", None, None, 0, 0, None, None, None) }

\* type_ok: with a type filter, column 3 is one of the allowed types
type_ok(l, type_allow) == ~type_allow.is_some \/ l.type \in type_allow.allow

\* bkey_finder.find(attr): the value after the first occurrence of the
\* bytes "K=" in column 9, up to ';' or the end of the line
bkey_find(l) == IF l.key \in {attr_key, "X" \o attr_key} THEN l.attr ELSE None

\* the closure of filter_map for block b = (root, start, end): the bytes of
\* the lines of the window that are no comments, pass the type filter and
\* whose value of the key is in the keep-set of the root; <<>> stands for None.
\* Columns 4 and 5 are not read: a nine-column line whose start is no number
\* is kept like any other.  A blank line and a line without nine columns
\* have no key in column 9.
FilterTask(lines, b, per_root_matches, type_allow) ==
    LET keep == IF b[1] \in DOMAIN per_root_matches THEN per_root_matches[b[1]] ELSE {}
        s == b[2]
        e == Min(b[3], FileLen(lines))
        hits == SelectSeq([i \in 1..Len(lines) |-> i], LAMBDA i :
                    /\ s <= LineOffset(lines, i) /\ LineOffset(lines, i) < e
                    /\ lines[i].kind # "comment"
                    /\ type_ok(lines[i], type_allow)
                    /\ bkey_find(lines[i]) \in keep)
    IN IF keep = {} \/ s >= e THEN <<>>
       ELSE FlattenSeq([k \in 1..Len(hits) |-> LineBytes(lines, hits[k])])

\* mutant: the parts are written in the order collect() left them in
PartsSort_None(parts) == {parts}

\* parts.sort_unstable_by_key(|(s, _)| *s)
PartsSort(parts) == sort_unstable_by_key(parts, Firsts(parts))

\* the call: the blocks are handed to the thread pool
StartFiltered(blocks, per_root_matches, type_allow) ==
    /\ index.pc = "built"
    /\ writer.pc = "idle"
    /\ writer' = [pc |-> "scan", blocks |-> blocks, per_root_matches |-> per_root_matches,
                  type_allow |-> type_allow,
                  results |-> [k \in 1..Len(blocks) |-> <<>>], order |-> <<>>,
                  written |-> <<>>]
    /\ UNCHANGED <<resolver, gff, index, tree, intersect, coverage, depth, extract, search>>

\* the task of block k returns
TaskDone(k) ==
    /\ writer.pc = "scan"
    /\ k \in 1..Len(writer.blocks)
    /\ k \notin Range(writer.order)
    /\ writer' = [writer EXCEPT
                    !.results[k] = FilterTask(gff.lines, writer.blocks[k],
                                              writer.per_root_matches,
                                              writer.type_allow),
                    !.order = Append(@, k)]
    /\ UNCHANGED <<resolver, gff, index, tree, intersect, coverage, depth, extract, search>>

\* collect() keeps the Some((start, out)) in the order of `blocks`; they are
\* sorted by start and written
CollectAndWrite ==
    /\ writer.pc = "scan"
    /\ Len(writer.order) = Len(writer.blocks)
    /\ LET idx == SelectSeq([k \in 1..Len(writer.blocks) |-> k],
                            LAMBDA k : writer.results[k] # <<>>)
           parts == [j \in 1..Len(idx) |-> <<writer.blocks[idx[j]][2], writer.results[idx[j]]>>]
       IN \E sorted \in PartsSort(parts) :
            writer' = [writer EXCEPT
                         !.pc = "done",
                         !.written = FlattenSeq([j \in 1..Len(sorted) |-> sorted[j][2]])]
    /\ UNCHANGED <<resolver, gff, index, tree, intersect, coverage, depth, extract, search>>

\* the blocks of the index in any order, none twice
BlockLists(gof) ==
    {q \in SeqsUpTo({<<gof[i].id, gof[i].start, gof[i].end>> : i \in 1..Len(gof)}, MaxTasks) :
        \A i, j \in 1..Len(q) : q[i] = q[j] => i = j}

\* root -> keep-set: every root or every root but FID 0
RootMatches(gof) ==
    LET roots == {gof[i].id : i \in 1..Len(gof)}
    IN {[r \in R |-> W] : R \in {roots, roots \ {0}}, W \in {{"x"}, {"x", "y", "#z"}}}

\* --types: none, "gene", or a list with no type in it
TypeFilters ==
    {[is_some |-> FALSE, allow |-> {}],
     [is_some |-> TRUE, allow |-> {"gene"}],
     [is_some |-> TRUE, allow |-> {}]}

InitFiltered ==
    /\ gff \in {[pc |-> "input", lines |-> ls, skip_types |-> sk] :
                  ls \in SeqsUpTo(FilteredLines, MaxLines), sk \in SkipTypeSets}
    /\ index = IdleIndex
    /\ resolver = IdleResolver /\ tree = IdleTree
    /\ intersect = IdleIntersect /\ coverage = IdleCoverage /\ depth = IdleDepth
    /\ writer = IdleWriter /\ extract = IdleExtract /\ search = IdleSearch

NextFiltered ==
    \/ BuildIndex
    \/ /\ index.pc = "built"
       /\ \E blocks \in BlockLists(index.gof), m \in RootMatches(index.gof),
             type_allow \in TypeFilters :
             StartFiltered(blocks, m, type_allow)
    \/ \E k \in 1..MaxTasks : TaskDone(k)
    \/ CollectAndWrite

SpecFiltered == InitFiltered /\ [][NextFiltered]_vars

\* C18: in the filtered output mode the per-block tasks run in parallel, and
\* for every order in which they finish the output is the concatenation of
\* the per-block outputs in increasing block start: the emitted lines are in
\* the order of the source file, the same for every schedule.
C18_FilteredOutputInFileOrder ==
    writer.pc = "done" =>
        writer.written =
            SetToSortedSeq(UNION {Range(FilterTask(gff.lines, writer.blocks[k],
                                                   writer.per_root_matches,
                                                   writer.type_allow)) :
                                  k \in 1..Len(writer.blocks)})

C18_Witness ==
    /\ writer.pc = "done"
    /\ Len(writer.blocks) = 3
    /\ writer.blocks[1][2] > writer.blocks[2][2]
    /\ writer.order[1] = 3
    /\ Cardinality({k \in 1..3 : writer.results[k] # <<>>}) >= 2

\* C19: when none of the queried values (exact or regex) matches a value of
\* .atn, search ends with a fatal error and writes no GFF output: no output
\* file is created and no block is written.
C19_SearchNoMatchIsFatal ==
    (/\ search.pc # "idle"
     /\ \A k \in 1..Len(index.atn) :
           IF search.regex
           THEN \A p \in search.attr_values : ~RegexIsMatch(p, index.atn[k])
           ELSE index.atn[k] \notin search.attr_values)
    => /\ search.pc = "error"
       /\ ~search.output_created
       /\ search.written = <<>>

C19_Witness ==
    /\ search.pc = "error"
    /\ search.regex
    /\ Len(index.atn) >= 2
    /\ Cardinality(search.attr_values) >= 2
    /\ \A k \in 1..Len(index.atn), p \in search.attr_values : ~RegexIsMatch(p, index.atn[k])

(***************************************************************************)
(* 4.F FtsMap::map_fnames_to_fids (index_loader/fts.rs) and the requested  *)
(* names of extract that are no line of .fts.                              *)
(***************************************************************************)

\* mutant: a name that is not in the index is dropped
MissPush_Drop(miss, fname) == miss

\* miss.push(fname.clone())
MissPush(miss, fname) == Append(miss, fname)

RECURSIVE MapFnames(_, _, _)
\* the loop (and the fold closure) over the names in the order `names`
MapFnames(idx, names, acc) ==
    IF names = <<>> THEN acc
    ELSE MapFnames(idx, Tail(names),
            IF Head(names) \in DOMAIN idx
            THEN [acc EXCEPT !.found = @ \cup {idx[Head(names)]}]
            ELSE [acc EXCEPT !.miss = MissPush(@, Head(names))])

\* map_fnames_to_fids(feature_names, threads): the set is iterated in an
\* order the hash decides; with threads > 1 and more than two names it is
\* split, folded per part and the parts are reduced
map_fnames_to_fids(ids, feature_names, threads) ==
    LET idx == fts_map(ids)
        n == Cardinality(feature_names)
        orders == {o \in [1..n -> feature_names] : \A i, j \in 1..n : o[i] = o[j] => i = j}
        empty == [found |-> {}, miss |-> <<>>]
    IN IF threads > 1 /\ n > 2
       THEN {LET a == MapFnames(idx, SubSeq(o, 1, m), empty)
                 b == MapFnames(idx, SubSeq(o, m + 1, n), empty)
             IN [found |-> a.found \cup b.found, miss |-> a.miss \o b.miss] :
             o \in orders, m \in 0..n}
       ELSE {MapFnames(idx, o, empty) : o \in orders}

\* the mapping step of extract: names -> (found FIDs, missing names)
MapFnamesToFids(feature_names, threads) ==
    /\ index.pc = "built"
    /\ extract.pc = "idle"
    /\ \E r \in map_fnames_to_fids(index.fts, feature_names, threads) :
          extract' = [pc |-> "mapped", feature_ids |-> feature_names, threads |-> threads,
                      found |-> r.found, miss |-> r.miss]
    /\ UNCHANGED <<resolver, gff, index, tree, intersect, coverage, depth, writer, search>>

NextNames ==
    \/ BuildIndex
    \/ \E feature_ids \in FeatureIdSets, threads \in {1, 2} :
          MapFnamesToFids(feature_ids, threads)
    \/ \E feature_ids \in FeatureIdSets, full_model \in BOOLEAN, io_ok \in BOOLEAN :
          ExtractRun(feature_ids, full_model, io_ok)

SpecNames == InitBuild /\ [][NextNames]_vars

\* the outputs of extract for the names `feature_ids`
ExtractOutputs(feature_ids, full_model) ==
    LET root_matches == extract_root_matches(feature_ids, index.fts, index.prt)
        root_blocks == extract_roots_to_offsets(SetToSortedSeq(DOMAIN root_matches),
                                                GofIndex(index.gof))
    IN IF full_model
       THEN extract_write_gff_output([k \in 1..Len(root_blocks) |->
                                         <<root_blocks[k][2], root_blocks[k][3]>>],
                                     FileLen(gff.lines))
       ELSE extract_write_filtered(gff.lines, root_blocks, root_matches, index.fts)

\* C20: a requested name that is absent from .fts is only a warning:
\* map_fnames_to_fids puts every requested name either in the found FID set
\* or in the missing list, never both; the names that are present are
\* extracted with the output they have when the missing names are not
\* requested; and a run of extract whose files can be read and written ends
\* in a fatal error exactly when no requested name is a line of .fts.
C20_MissingNamesAreWarnings ==
    LET present == extract.feature_ids \cap Range(index.fts) IN
    /\ extract.pc = "mapped" =>
          /\ Range(extract.miss) = extract.feature_ids \ present
          /\ Len(extract.miss) = Cardinality(Range(extract.miss))
          /\ extract.found = {fts_map(index.fts)[n] : n \in present}
          /\ \A f \in extract.found : index.fts[f + 1] \notin Range(extract.miss)
    /\ (extract.pc = "done" /\ present # {}) =>
          extract.written \in ExtractOutputs(present, extract.full_model)
    /\ (extract.pc \in {"done", "error"} /\ extract.io_ok) =>
          (extract.pc = "error" <=> present = {})

(***************************************************************************)
(* 4.C Tree index loader (utils/tree_index.rs, load_region_index).  The    *)
(* .rit file is the trees of save_multiple_trees back to back; rit[j] is   *)
(* the number of bytes of the encoding of tree j.  .rix is any list of     *)
(* offsets.                                                                *)
(***************************************************************************)
MaxRitTrees == 2    \* most trees of a .rit file
MaxOffsets == 3     \* most offsets of a .rix file

\* "no tree": what deserialize yields for bytes that begin inside a tree
Garbage == 0

\* the offset of the first byte of tree j in .rit
TreeStart(rit, j) == SumSeq(SubSeq(rit, 1, j - 1))

\* bincode2::deserialize(&buf[s..e]): bytes behind the value are allowed, a
\* value cut short is an error; bytes that begin inside the encoding of a
\* tree decode to an error or to some other value
deserialize(rit, s, e) ==
    LET here == {j \in 1..Len(rit) : TreeStart(rit, j) = s}
        err == [ok |-> FALSE, tree |-> Garbage]
    IN IF s >= e THEN {err}
       ELSE IF here # {}
       THEN {IF s + rit[j] <= e THEN [ok |-> TRUE, tree |-> j] ELSE err : j \in here}
       ELSE {err, [ok |-> TRUE, tree |-> Garbage]}

\* mutant: every slice runs to the end of the file
SliceEnd_FileLen(offsets, i, len) == len

\* the end of slice i (1-based): the next offset, or buf.len() for the last
SliceEnd(offsets, i, len) == IF i < Len(offsets) THEN offsets[i + 1] ELSE len

\* load_region_index(rit_path, rix_path): its results
load_region_index(rit, offsets) ==
    LET len == SumSeq(rit)
        n == Len(offsets)
        error == [pc |-> "error", rit |-> rit, offsets |-> offsets, chr_entries |-> <<>>]
        slices == [i \in 1..n |-> deserialize(rit, offsets[i], SliceEnd(offsets, i, len))]
    IN IF n = 0 THEN {[error EXCEPT !.pc = "loaded"]}
       ELSE IF \E i \in 1..(n - 1) : offsets[i] > offsets[i + 1] THEN {error}
       ELSE IF offsets[n] > len THEN {error}
       ELSE IF \E i \in 1..n : SliceEnd(offsets, i, len) < offsets[i]
                                 \/ SliceEnd(offsets, i, len) > len THEN {error}
       ELSE {IF \E i \in 1..n : ~c[i].ok THEN error
             ELSE [error EXCEPT !.pc = "loaded", !.chr_entries = [i \in 1..n |-> c[i].tree]] :
             c \in {d \in [1..n -> UNION {slices[i] : i \in 1..n}] :
                       \A i \in 1..n : d[i] \in slices[i]}}

LoadRegionIndex(rit, offsets) ==
    /\ tree.pc = "idle"
    /\ tree' \in load_region_index(rit, offsets)
    /\ UNCHANGED <<resolver, gff, index, intersect, coverage, depth, writer, extract, search>>

InitRegionIndex ==
    /\ tree = IdleTree
    /\ resolver = IdleResolver /\ gff = IdleGff /\ index = IdleIndex
    /\ intersect = IdleIntersect /\ coverage = IdleCoverage /\ depth = IdleDepth
    /\ writer = IdleWriter /\ extract = IdleExtract /\ search = IdleSearch

NextRegionIndex ==
    \E rit \in SeqsUpTo({1, 2}, MaxRitTrees) :
        \E offsets \in SeqsUpTo(0..(SumSeq(rit) + 1), MaxOffsets) :
            LoadRegionIndex(rit, offsets)

SpecRegionIndex == InitRegionIndex /\ [][NextRegionIndex]_vars

\* the .rix offsets are not non-decreasing or an offset lies past the end of
\* .rit
BadOffsets ==
    \/ \E i \in 1..(Len(tree.offsets) - 1) : tree.offsets[i] > tree.offsets[i + 1]
    \/ \E i \in 1..Len(tree.offsets) : tree.offsets[i] > SumSeq(tree.rit)

\* the results of decoding the bytes [offsets[i], offsets[i+1]), the last
\* slice running to the end of the file
SliceTrees(i) ==
    deserialize(tree.rit, tree.offsets[i],
                IF i < Len(tree.offsets) THEN tree.offsets[i + 1] ELSE SumSeq(tree.rit))

\* C21 as stated: load_region_index returns an error and no trees whenever
\* the .rix offsets are not non-decreasing or an offset lies past the end of
\* .rit; otherwise it returns one tree per offset, tree i deserialized from
\* the bytes [offsets[i], offsets[i+1]) and stored under SID i.
C21_LoadRegionIndexChecksOffsets ==
    tree.pc \in {"loaded", "error"} =>
        IF BadOffsets THEN tree.pc = "error" /\ tree.chr_entries = <<>>
        ELSE /\ tree.pc = "loaded"
             /\ Len(tree.chr_entries) = Len(tree.offsets)
             /\ \A i \in 1..Len(tree.offsets) :
                   [ok |-> TRUE, tree |-> tree.chr_entries[i]] \in SliceTrees(i)

\* C21 amended: bad offsets give an error and no trees; so does a slice that
\* does not decode to a tree (an empty or a cut slice); a successful load
\* returns one tree per offset, tree i decoded from its slice, under SID i.
C21_LoadRegionIndexDecodesSlices ==
    tree.pc \in {"loaded", "error"} =>
        /\ BadOffsets => tree.pc = "error"
        /\ tree.pc = "error" =>
              /\ tree.chr_entries = <<>>
              /\ BadOffsets \/ \E i \in 1..Len(tree.offsets) :
                                  [ok |-> FALSE, tree |-> Garbage] \in SliceTrees(i)
        /\ tree.pc = "loaded" =>
              /\ Len(tree.chr_entries) = Len(tree.offsets)
              /\ \A i \in 1..Len(tree.offsets) :
                    [ok |-> TRUE, tree |-> tree.chr_entries[i]] \in SliceTrees(i)

C21_Witness ==
    /\ tree.pc = "loaded"
    /\ Len(tree.rit) = 2
    /\ tree.chr_entries = <<1, 2>>

(***************************************************************************)
(* 4.G Intersect, per-coordinate filter (intersect/mod.rs,                 *)
(* gff_line_overlaps_queries).  A line is its columns 1, 4 and 5; ivmap    *)
(* maps a seqid string to the query intervals (qs, qe) of the regions.     *)
(***************************************************************************)
MaxQueries == 2     \* most query intervals of a seqid

\* gff_line_overlaps_queries(line, ivmap)
gff_line_overlaps_queries(seq, start, end, ivmap) ==
    IF seq \notin DOMAIN ivmap THEN FALSE
    ELSE \E k \in 1..Len(ivmap[seq]) :
            LET qs == ivmap[seq][k][1]
                qe == ivmap[seq][k][2]
            IN \/ (qs <= start /\ start <= qe)
               \/ (qs <= end /\ end <= qe)
               \/ (start <= qs /\ qs <= end)
               \/ (start <= qe /\ qe <= end)

\* the test of one line of a selected block
GffLineOverlapsQueries(seq, start, end, ivmap) ==
    /\ intersect.pc = "idle"
    /\ intersect' = [pc |-> "line", seq |-> seq, start |-> start, end |-> end,
                     ivmap |-> ivmap,
                     keep |-> gff_line_overlaps_queries(seq, start, end, ivmap)]
    /\ UNCHANGED <<resolver, gff, index, tree, coverage, depth, writer, extract, search>>

\* the query intervals of the regions: parse_region wants start < end, a
\* line of a BED file gives (start, end) as it is written
QueryIntervals == (0..(MaxCoord + 2)) \X (0..(MaxCoord + 2))

NextOverlap ==
    \E seq \in {"chr1", "chr2"}, start \in 1..(MaxCoord + 1), end \in 1..(MaxCoord + 1) :
        \E qseq \in {"chr1", "chr2"}, ivs \in SeqsUpTo(QueryIntervals, MaxQueries) :
            /\ start <= end
            /\ GffLineOverlapsQueries(seq, start, end, [s \in {qseq} |-> ivs])

SpecOverlap == InitRegionIndex /\ [][NextOverlap]_vars

\* C22: a line of a selected block is kept if and only if its coordinates,
\* converted from 1-based closed [start,end] to half-open [start-1,end),
\* overlap a query interval [qs,qe) on the same seqid string (start-1 < qe
\* and end > qs); a feature that only touches a query interval at a
\* boundary is not kept.
C22_LineKeptIffHalfOpenOverlap ==
    intersect.pc = "line" =>
        (intersect.keep <=>
            /\ intersect.seq \in DOMAIN intersect.ivmap
            /\ \E k \in 1..Len(intersect.ivmap[intersect.seq]) :
                  /\ intersect.start - 1 < intersect.ivmap[intersect.seq][k][2]
                  /\ intersect.end > intersect.ivmap[intersect.seq][k][1])

(***************************************************************************)
(* The root hits of query_features (intersect/mod.rs 227-246), over the    *)
(* closed test of serial_interval_trees::query_interval_rec.               *)
(***************************************************************************)
\* the stored root intervals of the sequence of region r that overlap the
\* region half-open: iv.start < e and iv.end > s
HalfOpenHits(r) ==
    {<<iv.root_fid, iv.start, iv.end>> :
        iv \in {iv \in Range(intersect.root_intervals[r[1] + 1]) :
                   iv.start < r[3] /\ iv.end > r[2]}}

\* C23: the root hits collected by query_features for a region [s,e) on a
\* SID are exactly the root intervals iv of the tree of that SID with
\* iv.start < e and iv.end > s; a root whose interval ends exactly at s or
\* starts exactly at e is not a hit.
C23_RootHitsAreHalfOpenOverlaps ==
    (intersect.pc = "done"
        /\ \A k \in 1..Len(intersect.regions) :
              intersect.regions[k][2] < intersect.regions[k][3]) =>
        Range(intersect.feats) =
            UNION {HalfOpenHits(intersect.regions[k]) :
                      k \in 1..Len(intersect.regions)}

(***************************************************************************)
(* The lines the filtered writer emits (utils/common.rs 287-463).          *)
(***************************************************************************)
\* the value of the attribute named by the key in column 9 of line l
KeyValue(l) == IF l.key = attr_key THEN l.attr ELSE None

\* the lines of the window of block b that the filter has to emit
LinesToEmit(lines, b, per_root_matches, type_allow) ==
    IF b[1] \notin DOMAIN per_root_matches THEN <<>>
    ELSE SelectSeq([i \in 1..Len(lines) |-> i], LAMBDA i :
            /\ b[2] <= LineOffset(lines, i) /\ LineOffset(lines, i) < b[3]
            /\ lines[i].kind # "comment"
            /\ type_allow.is_some => lines[i].type \in type_allow.allow
            /\ KeyValue(lines[i]) \in per_root_matches[b[1]])

\* C24: in the filtered writer a line of a block is emitted if and only if
\* it is no comment, its column-3 type is in the allowed set when one is
\* given, and the value of its ID attribute (or of the configured key) in
\* column 9 is in the keep-set of the root of the block; an emitted line is
\* the bytes of the source line with its terminator, and a block whose
\* root has no keep-set emits nothing.
C24_FilteredLineEmittedIffKept ==
    writer.pc \in {"scan", "done"} =>
        \A k \in Range(writer.order) :
            writer.results[k] =
                LET hits == LinesToEmit(gff.lines, writer.blocks[k],
                                        writer.per_root_matches, writer.type_allow)
                IN FlattenSeq([j \in 1..Len(hits) |-> LineBytes(gff.lines, hits[j])])

(***************************************************************************)
(* The vectored write loops: the batch loop of write_gff_output            *)
(* (utils/common.rs 247-275) and write_all_vectored of                     *)
(* write_gff_match_only_by_coords (intersect/mod.rs 416-459).  A slice is  *)
(* the range <<lo, hi>> of the file offsets of its bytes.                  *)
(***************************************************************************)
\* the bytes of a list of slices, in order
SlicesBytes(slices) == FlattenSeq([k \in 1..Len(slices) |-> SliceBytes(slices[k])])

\* mutant: the slice written in part is left as it was
AdvanceWithin_Keep(s, remaining) == s
\* *s = &s[remaining..]
AdvanceWithin(s, remaining) == <<s[1] + remaining, s[2]>>

RECURSIVE ConsumeLoop(_, _, _, _)
\* the loop `for s in &mut slices` that consumes `wrote` bytes from the front
ConsumeLoop(slices, k, remaining, drop_count) ==
    IF k > Len(slices) \/ remaining = 0
    THEN [slices |-> slices, drop_count |-> drop_count]
    ELSE LET len == slices[k][2] - slices[k][1] IN
         IF remaining >= len
         THEN ConsumeLoop(slices, k + 1, remaining - len, drop_count + 1)
         ELSE ConsumeLoop([slices EXCEPT ![k] = AdvanceWithin(slices[k], remaining)],
                          k + 1, 0, drop_count)

\* one turn of `while !slices.is_empty()` in which write_vectored has
\* returned `wrote`: the slices left, or "WriteZero"
write_all_vectored_iter(slices, wrote) ==
    IF wrote = 0 THEN "WriteZero"
    ELSE LET c == ConsumeLoop(slices, 1, wrote, 0)
         IN SubSeq(c.slices, c.drop_count + 1, Len(c.slices))

\* write_all_vectored is called with a batch: the fast path of an empty batch
StartVectored ==
    /\ writer.pc = "vinput"
    /\ writer' = [writer EXCEPT !.pc = IF writer.slices = <<>> THEN "vdone" ELSE "vloop"]
    /\ UNCHANGED <<resolver, gff, index, tree, intersect, coverage, depth, extract, search>>

\* one turn of the loop of write_all_vectored; the writer takes the first
\* `wrote` bytes of the slices
VectoredIter(wrote) ==
    /\ writer.pc = "vloop"
    /\ writer.iters <= Len(writer.all)
    /\ wrote <= Len(SlicesBytes(writer.slices))
    /\ LET left == write_all_vectored_iter(writer.slices, wrote)
       IN writer' = [writer EXCEPT
              !.delivered = @ \o SubSeq(SlicesBytes(writer.slices), 1, wrote),
              !.wrote = wrote,
              !.iters = @ + 1,
              !.slices = IF left = "WriteZero" THEN @ ELSE left,
              !.pc = IF left = "WriteZero" THEN "verror"
                     ELSE IF left = <<>> THEN "vdone" ELSE "vloop"]
    /\ UNCHANGED <<resolver, gff, index, tree, intersect, coverage, depth, extract, search>>

\* the batch loop of write_gff_output on the same slices, write_vectored
\* returning nw
WriteBatches(nw) ==
    /\ writer.pc = "vinput"
    /\ nw <= Len(writer.all)
    /\ writer' = [writer EXCEPT
          !.pc = "bdone", !.wrote = nw,
          !.delivered = WriteBatch(SubSeq(writer.slices, 1,
                                          Min(MAX_IOV, Len(writer.slices))), nw)]
    /\ UNCHANGED <<resolver, gff, index, tree, intersect, coverage, depth, extract, search>>

\* the slices handed to the loops: non-empty ranges of the file, in any order
SliceRanges == {<<lo, hi>> \in (0..MaxFileLen) \X (0..MaxFileLen) : lo < hi}

InitVectored ==
    /\ writer \in {[pc |-> "vinput", slices |-> ss, all |-> SlicesBytes(ss),
                    delivered |-> <<>>, wrote |-> 0, iters |-> 0] :
                      ss \in SeqsUpTo(SliceRanges, MaxBlocks)}
    /\ resolver = IdleResolver /\ gff = IdleGff /\ index = IdleIndex /\ tree = IdleTree
    /\ intersect = IdleIntersect /\ coverage = IdleCoverage /\ depth = IdleDepth
    /\ extract = IdleExtract /\ search = IdleSearch

NextVectored ==
    \/ StartVectored
    \/ \E wrote \in 0..(MaxBlocks * MaxFileLen) : VectoredIter(wrote)
    \/ \E nw \in 0..(MaxBlocks * MaxFileLen) : WriteBatches(nw)

SpecVectored == InitVectored /\ [][NextVectored]_vars

\* C25: for every sequence of byte counts write_vectored returns, the bytes
\* the vectored write loops deliver are the concatenation of the slices in
\* order, each byte once, none skipped or repeated; the loop of the
\* intersect writer ends after at most one turn per byte, and it fails with
\* WriteZero when a write accepts 0 bytes.
C25_VectoredLoopsDeliverSlicesOnce ==
    /\ writer.pc = "bdone" => writer.delivered = writer.all
    /\ writer.pc \in {"vloop", "vdone", "verror"} =>
          /\ writer.delivered \o SlicesBytes(writer.slices) = writer.all
          /\ writer.iters <= Len(writer.all)
          /\ \A k \in 1..Len(writer.slices) : writer.slices[k][1] < writer.slices[k][2]
    /\ writer.pc = "vloop" => writer.slices # <<>>
    /\ writer.pc = "vdone" => writer.slices = <<>> /\ writer.delivered = writer.all
    /\ writer.pc = "verror" => writer.wrote = 0 /\ writer.slices # <<>>

\* C25 witness: three slices written in three turns, one write ending in
\* the middle of a slice and one between two slices.
C25_Witness ==
    /\ writer.pc = "vdone"
    /\ Len(writer.all) >= 5
    /\ writer.iters = 3
    /\ writer.wrote = 2
    /\ writer.all[1] > writer.all[Len(writer.all)]

(***************************************************************************)
(* The aggregation of the per-root partial maps: the merge loops of        *)
(* finalize_compute_breadth (commands/coverage.rs 397-443) and of          *)
(* compute_hit_depth (commands/depth.rs 253-290).  With threads > 1 the    *)
(* partials come from par_bridge().collect(), in any order.                *)
(***************************************************************************)
MaxRoots == 3       \* most roots with collected regions

\* the GFF slices of the roots
AggSlices ==
    { <<Feature("chr1", "exon", 1, 2, "a", None, None)>>,
      <<Feature("chr2", "exon", 2, 3, "a", None, None)>>,
      <<Feature("chr1", "exon", 3, 3, "a", None, None)>>,
      <<Feature("chr1", "exon", 2, 3, "b", None, None)>>,
      <<Feature("chr1", "exon", 1, 1, "b", None, None),
        Feature("chr1", "exon", 2, 3, "a", None, None)>> }

\* the regions collected for a root
AggRegions == { << <<0, 3>> >>, << <<0, 2>>, <<1, 3>> >> }

\* a partial map as ID -> (chrom, s, e, n)
PartialOf(m, n) ==
    [id \in DOMAIN m |-> [chrom |-> m[id].chrom, start |-> m[id].start,
                          end |-> m[id].end, count |-> n[id]]]

\* for (id, (chrom, s, e, d)) in m { out.entry(id).and_modify(..).or_insert(..) }
MergePartial(out, m) ==
    [id \in DOMAIN out \cup DOMAIN m |->
        IF id \notin DOMAIN m THEN out[id]
        ELSE IF id \notin DOMAIN out THEN m[id]
        ELSE [chrom |-> out[id].chrom,
              start |-> IF m[id].start < out[id].start THEN m[id].start ELSE out[id].start,
              end |-> IF m[id].end > out[id].end THEN m[id].end ELSE out[id].end,
              count |-> out[id].count + m[id].count]]

\* the partial of one root in finalize_compute_breadth
BreadthPartials(root) ==
    UNION {{PartialOf(m, [id \in DOMAIN m |-> m[id].breadth]) :
               m \in compute_breadth_for_root(root.slice, cov)} :
           cov \in merge_intervals(root.regs)}

\* the partial of one root in compute_hit_depth: the outcomes of its task
DepthPartial(root, bin_shift) ==
    {[pc |-> o.pc, m |-> PartialOf(o.out, [id \in DOMAIN o.out |-> o.out[id].depth])] :
        o \in compute_root_depth(root.slice, root.regs, bin_shift)}

\* finalize_compute_breadth: the per-root tasks have returned
CollectBreadth ==
    /\ coverage.pc = "by_root"
    /\ \E ps \in [1..Len(coverage.by_root) ->
                    UNION {BreadthPartials(coverage.by_root[k]) :
                              k \in 1..Len(coverage.by_root)}] :
          /\ \A k \in 1..Len(coverage.by_root) : ps[k] \in BreadthPartials(coverage.by_root[k])
          /\ coverage' = [coverage EXCEPT !.partials = ps, !.pc = "merge"]
    /\ UNCHANGED <<resolver, gff, index, tree, intersect, depth, writer, extract, search>>

\* one turn of `for m in partials` in finalize_compute_breadth: the partial
\* of root k is next in the collected list
MergeBreadth(k) ==
    /\ coverage.pc = "merge"
    /\ k \in 1..Len(coverage.partials)
    /\ k \notin Range(coverage.order)
    /\ coverage' = [coverage EXCEPT
          !.global = MergePartial(@, coverage.partials[k]),
          !.order = Append(@, k),
          !.pc = IF Len(coverage.order) + 1 = Len(coverage.partials)
                 THEN "merged" ELSE "merge"]
    /\ UNCHANGED <<resolver, gff, index, tree, intersect, depth, writer, extract, search>>

\* compute_hit_depth, threads > 1: the per-root tasks have returned
CollectDepth ==
    /\ depth.pc = "by_root"
    /\ \E profile \in {"debug", "release"} :
          LET task(k) == CHOOSE o \in DepthPartial(depth.by_root[k], depth.bin_shift) :
                            \/ o.pc = "panic" /\ profile = "debug"
                            \/ Cardinality(DepthPartial(depth.by_root[k],
                                                        depth.bin_shift)) = 1
                            \/ o.pc = "done" /\ profile = "release"
              panics == \E k \in 1..Len(depth.by_root) : task(k).pc = "panic"
          IN depth' = [depth EXCEPT
                !.partials = IF panics THEN <<>>
                             ELSE [k \in 1..Len(depth.by_root) |-> task(k).m],
                !.pc = IF panics THEN "panic" ELSE "merge"]
    /\ UNCHANGED <<resolver, gff, index, tree, intersect, coverage, writer, extract, search>>

\* one turn of `for m in partials` in compute_hit_depth
MergeDepth(k) ==
    /\ depth.pc = "merge"
    /\ k \in 1..Len(depth.partials)
    /\ k \notin Range(depth.order)
    /\ depth' = [depth EXCEPT
          !.out = MergePartial(@, depth.partials[k]),
          !.order = Append(@, k),
          !.pc = IF Len(depth.order) + 1 = Len(depth.partials)
                 THEN "merged" ELSE "merge"]
    /\ UNCHANGED <<resolver, gff, index, tree, intersect, coverage, writer, extract, search>>

\* by_root: the roots with their slice and regions, two at least
ByRoots ==
    {q \in SeqsUpTo({[slice |-> sl, regs |-> rs] : sl \in AggSlices, rs \in AggRegions},
                    MaxRoots) : Len(q) >= 2}

InitAggregate ==
    /\ \/ /\ coverage \in {[pc |-> "by_root", by_root |-> q, partials |-> <<>>,
                            order |-> <<>>, global |-> <<>>] : q \in ByRoots}
          /\ depth = IdleDepth
       \/ /\ depth \in {[pc |-> "by_root", by_root |-> q, bin_shift |-> k,
                         partials |-> <<>>, order |-> <<>>, out |-> <<>>] :
                           q \in ByRoots, k \in {0, 32}}
          /\ coverage = IdleCoverage
    /\ resolver = IdleResolver /\ gff = IdleGff /\ index = IdleIndex /\ tree = IdleTree
    /\ intersect = IdleIntersect
    /\ writer = IdleWriter /\ extract = IdleExtract /\ search = IdleSearch

NextAggregate ==
    \/ CollectBreadth
    \/ \E k \in 1..MaxRoots : MergeBreadth(k)
    \/ CollectDepth
    \/ \E k \in 1..MaxRoots : MergeDepth(k)

SpecAggregate == InitAggregate /\ [][NextAggregate]_vars

\* the record of `id` that does not depend on the order of the merge: the
\* least start, the greatest end and the sum of the counts over the
\* partials that hold the ID, with the chrom of the first of them in the
\* order of the roots
AggregateOf(partials, id) ==
    LET with == {k \in 1..Len(partials) : id \in DOMAIN partials[k]}
        first == CHOOSE k \in with : \A j \in with : k <= j
    IN [chrom |-> partials[first][id].chrom,
        start |-> CHOOSE x \in {partials[k][id].start : k \in with} :
                     \A k \in with : x <= partials[k][id].start,
        end |-> CHOOSE x \in {partials[k][id].end : k \in with} :
                     \A k \in with : x >= partials[k][id].end,
        count |-> SumSeq([k \in 1..Len(partials) |->
                     IF k \in with THEN partials[k][id].count ELSE 0])]

\* the aggregate of all partials
Aggregate(partials) ==
    [id \in UNION {DOMAIN partials[k] : k \in 1..Len(partials)} |->
        AggregateOf(partials, id)]

\* C26: the record (chr, start, end, count) that coverage and depth
\* aggregate for a feature ID from the per-root partial maps is the same
\* for every order in which the partials are merged: start is the minimum,
\* end the maximum, count the sum over the partials, and no field depends
\* on which partial is merged first.
C26_AggregationIsOrderIndependent ==
    /\ coverage.pc = "merged" => coverage.global = Aggregate(coverage.partials)
    /\ depth.pc = "merged" => depth.out = Aggregate(depth.partials)

(***************************************************************************)
(* The lazy caches GofMap::index_cached (index_loader/gof.rs 25-42) and    *)
(* FtsMap::index_fwd (index_loader/fts.rs 16-32).  Both are a              *)
(* std::sync::OnceLock filled by get_or_init: the first caller runs the    *)
(* closure, a caller that arrives while it runs waits, and every caller    *)
(* returns a reference to the stored value.                                *)
(***************************************************************************)
MaxThreads == 2     \* threads that call the caches
MaxCalls == 2       \* calls of one thread

RECURSIVE GofIndexFold(_, _)
\* GofMap::index: entries.iter().map(..).collect() into a hash map, a later
\* entry of a feature_id replacing an earlier one
GofIndexFold(entries, m) ==
    IF entries = <<>> THEN m
    ELSE LET e == Head(entries) IN
         GofIndexFold(Tail(entries),
            [f \in DOMAIN m \cup {e[1]} |-> IF f = e[1] THEN <<e[2], e[3]>> ELSE m[f]])

index_gof(entries) == GofIndexFold(entries, <<>>)

RECURSIVE BuildFwdLoop(_, _, _)
\* FtsMap::build_fwd: m.insert(s.clone(), i as u32) for every i
BuildFwdLoop(ids, i, m) ==
    IF i >= Len(ids) THEN m
    ELSE BuildFwdLoop(ids, i + 1,
            [s \in DOMAIN m \cup {ids[i + 1]} |-> IF s = ids[i + 1] THEN i ELSE m[s]])

build_fwd(ids) == BuildFwdLoop(ids, 0, <<>>)

\* the closure handed to get_or_init for cache c
CacheInit(c) == IF c = "gof" THEN index_gof(index.entries) ELSE build_fwd(index.ids)

\* mutant: a caller that finds the initializer running does not wait
OnceWaits_Never(state) == FALSE
\* get_or_init: a caller that finds the initializer running waits for it
OnceWaits(state) == state = "running"

\* thread t calls index_cached (c = "gof") or index_fwd (c = "fts")
CallCached(t, c) ==
    /\ index.pc = "caches"
    /\ index.threads[t].pc = "idle"
    /\ index.threads[t].calls < MaxCalls
    /\ LET st == index.cache[c].state IN
       index' = [index EXCEPT
          !.threads[t] = [pc |-> IF st = "init" THEN "got"
                                 ELSE IF OnceWaits(st) THEN "wait" ELSE "run",
                          c |-> c,
                          seen |-> IF st = "init" THEN index.cache[c].value ELSE <<>>,
                          calls |-> @.calls + 1],
          !.cache[c].state = IF st = "uninit" THEN "running" ELSE @]
    /\ UNCHANGED <<resolver, gff, tree, intersect, coverage, depth, writer, extract, search>>

\* the closure of thread t returns and its value is stored
FinishInit(t) ==
    /\ index.pc = "caches"
    /\ index.threads[t].pc = "run"
    /\ LET c == index.threads[t].c
           v == <<CacheInit(c)>>
       IN index' = [index EXCEPT
             !.cache[c] = [state |-> "init", value |-> v, published |-> @.published + 1],
             !.threads[t].pc = "got",
             !.threads[t].seen = v]
    /\ UNCHANGED <<resolver, gff, tree, intersect, coverage, depth, writer, extract, search>>

\* a waiting caller is released once the value is stored
WakeWaiter(t) ==
    /\ index.pc = "caches"
    /\ index.threads[t].pc = "wait"
    /\ index.cache[index.threads[t].c].state = "init"
    /\ index' = [index EXCEPT
          !.threads[t].pc = "got",
          !.threads[t].seen = index.cache[index.threads[t].c].value]
    /\ UNCHANGED <<resolver, gff, tree, intersect, coverage, depth, writer, extract, search>>

\* the caller goes on, holding the reference it got
ReturnCached(t) ==
    /\ index.pc = "caches"
    /\ index.threads[t].pc = "got"
    /\ index.threads[t].calls < MaxCalls
    /\ index' = [index EXCEPT !.threads[t].pc = "idle"]
    /\ UNCHANGED <<resolver, gff, tree, intersect, coverage, depth, writer, extract, search>>

\* the entries of a loaded .gof and the IDs of a loaded .fts
GofEntryLists == SeqsUpTo({<<0, 0, 2>>, <<1, 2, 4>>, <<0, 4, 5>>}, 2)
FtsIdLists == SeqsUpTo({"a", "b"}, 2)

InitCaches ==
    /\ index \in {[pc |-> "caches", entries |-> es, ids |-> ids,
                   cache |-> [c \in {"gof", "fts"} |->
                                 [state |-> "uninit", value |-> <<>>, published |-> 0]],
                   threads |-> [t \in 1..MaxThreads |->
                                   [pc |-> "idle", c |-> "gof", seen |-> <<>>, calls |-> 0]]] :
                     es \in GofEntryLists, ids \in FtsIdLists}
    /\ resolver = IdleResolver /\ gff = IdleGff /\ tree = IdleTree
    /\ intersect = IdleIntersect /\ coverage = IdleCoverage /\ depth = IdleDepth
    /\ writer = IdleWriter /\ extract = IdleExtract /\ search = IdleSearch

NextCaches ==
    \E t \in 1..MaxThreads :
        \/ \E c \in {"gof", "fts"} : CallCached(t, c)
        \/ FinishInit(t)
        \/ WakeWaiter(t)
        \/ ReturnCached(t)

SpecCaches == InitCaches /\ [][NextCaches]_vars

\* the map derived from the loaded entries: the last entry of a feature_id
\* for the GOF index, the last position of an ID for the forward index
DerivedMap(c) ==
    IF c = "gof"
    THEN [f \in {index.entries[i][1] : i \in 1..Len(index.entries)} |->
            LET last == CHOOSE i \in 1..Len(index.entries) :
                           /\ index.entries[i][1] = f
                           /\ \A j \in (i + 1)..Len(index.entries) : index.entries[j][1] # f
            IN <<index.entries[last][2], index.entries[last][3]>>]
    ELSE [s \in Range(index.ids) |->
            (CHOOSE i \in 1..Len(index.ids) :
                /\ index.ids[i] = s
                /\ \A j \in (i + 1)..Len(index.ids) : index.ids[j] # s) - 1]

\* C27: under any interleaving of concurrent first calls of index_cached
\* and index_fwd the map is published once; every caller, during or after
\* the initialization, observes the same map, which is the one derived from
\* the loaded entries, and the map never changes.
C27_CachePublishedOnce ==
    index.pc = "caches" =>
        /\ \A c \in {"gof", "fts"} :
              /\ index.cache[c].published <= 1
              /\ index.cache[c].state = "init" <=> index.cache[c].published = 1
              /\ index.cache[c].state = "init" => index.cache[c].value = <<DerivedMap(c)>>
        /\ \A t \in 1..MaxThreads :
              index.threads[t].pc = "got" =>
                  index.threads[t].seen = <<DerivedMap(index.threads[t].c)>>

\* C27 witness: both threads have called index_cached once, the map was
\* stored once and both hold it; a feature_id occurs twice in the entries.
C27_Witness ==
    /\ index.pc = "caches"
    /\ Len(index.entries) = 2 /\ index.entries[1][1] = index.entries[2][1]
    /\ index.cache["gof"].published = 1
    /\ \A t \in 1..MaxThreads :
          /\ index.threads[t].pc = "got" /\ index.threads[t].c = "gof"
          /\ index.threads[t].calls = 1

(***************************************************************************)
(* The shape of the tree of IntervalTree::new (utils/tree.rs 35-64).       *)
(***************************************************************************)
RECURSIVE SubtreeIntervals(_)
\* the intervals stored in the nodes of a subtree
SubtreeIntervals(node) ==
    IF node = <<>> THEN <<>>
    ELSE node[1].intervals \o SubtreeIntervals(node[1].left)
                           \o SubtreeIntervals(node[1].right)

RECURSIVE NodeCount(_)
NodeCount(node) ==
    IF node = <<>> THEN 0
    ELSE 1 + NodeCount(node[1].left) + NodeCount(node[1].right)

RECURSIVE CenteredAt(_)
\* every node of the subtree keeps the partition around its center
CenteredAt(node) ==
    IF node = <<>> THEN TRUE
    ELSE LET n == node[1] IN
         /\ n.intervals # <<>>
         /\ \A iv \in Range(n.intervals) : iv.start <= n.center /\ n.center <= iv.end
         /\ \A iv \in Range(SubtreeIntervals(n.left)) : iv.end < n.center
         /\ \A iv \in Range(SubtreeIntervals(n.right)) : iv.start > n.center
         /\ CenteredAt(n.left)
         /\ CenteredAt(n.right)

\* C28: IntervalTree::new ends for every list of intervals with
\* start <= end, with a tree of at most one node per interval that stores
\* each input interval in exactly one node; at every node the intervals of
\* the left subtree have end < center, those of the right subtree have
\* start > center, and the list of the node is non-empty and holds only
\* intervals with start <= center <= end.
C28_BuildPartitionsAroundCenters ==
    tree.pc \in {"built", "queried"} =>
        /\ NodeCount(tree.root) <= Len(tree.intervals)
        /\ Len(SubtreeIntervals(tree.root)) = Len(tree.intervals)
        /\ \A i \in 1..Len(tree.intervals) :
              Count(SubtreeIntervals(tree.root), tree.intervals[i]) = 1
        /\ CenteredAt(tree.root)

\* C28 witness: a tree of three nodes, the root with a left and a right
\* child, built from intervals that were not given in start order.
C28_Witness ==
    /\ tree.pc = "built"
    /\ Len(tree.intervals) = 3
    /\ tree.intervals[1].start > tree.intervals[2].start
    /\ tree.root[1].left # <<>> /\ tree.root[1].right # <<>>

(***************************************************************************)
(* The roots of the artifacts build_index writes (index_builder/core.rs    *)
(* 159-218) and their blocks (index_loader/gof.rs 25-72).                  *)
(***************************************************************************)
\* the FIDs r with .prt[r] == r: the roots the resolver can return
PrtRoots == {f \in 0..(Len(index.prt) - 1) : index.prt[f + 1] = f}

\* C29: after build_index the artifacts agree on the roots: the root_fid
\* values of .gof are the FIDs r with .prt[r] == r, each root has exactly
\* one GOF record, every interval stored in the trees carries such a FID,
\* and roots_to_offsets finds exactly one block, that of its record, for
\* every root the resolver can return.
C29_ArtifactsAgreeOnRoots ==
    index.pc = "built" =>
        LET g == index.gof
            roots == SetToSortedSeq(PrtRoots)
            blocks == roots_to_offsets(roots, g)
        IN /\ {g[i].id : i \in 1..Len(g)} = PrtRoots
           /\ \A r \in PrtRoots : Cardinality({i \in 1..Len(g) : g[i].id = r}) = 1
           /\ \A c \in 1..Len(index.trees) :
                 \A iv \in Range(SubtreeIntervals(index.trees[c])) : iv.root_fid \in PrtRoots
           /\ Len(blocks) = Len(roots)
           /\ \A k \in 1..Len(blocks) :
                 /\ blocks[k][1] = roots[k]
                 /\ \E i \in 1..Len(g) :
                       g[i].id = roots[k] /\ blocks[k] = <<g[i].id, g[i].start, g[i].end>>

(***************************************************************************)
(* build_index on a file that has changed since the index was built        *)
(* (index_builder/core.rs 71-156): the errors of the first pass.           *)
(***************************************************************************)
MaxChanged == 2     \* longest changed GFF file, in lines

\* the lines of the changed file: a 9-column line whose start is no number,
\* a line without 9 columns, a line without ID=, and lines that parse
ChangedLines ==
    { GffLine("unparsable", "chr1", "gene", 0, 0, "e", None, None),
      GffLine("unparsable", "chr1", "region", 0, 0, "e", None, None),
      GffLine("malformed", None, None, 0, 0, None, None, None),
      Feature("chr1", "gene", 1, 1, None, None, "y"),
      Feature("chr1", "gene", 0, 0, None, None, None),
      Feature("chr2", "gene", 2, 3, "b", None, "x") }

\* build_index on the changed file, over the artifacts of the earlier run
ReindexChanged(lines) ==
    /\ gff.pc = "indexed"
    /\ \E hash_order \in HashOrders :
          index' = WriteArtifacts(index, BuiltIndex(lines, gff.skip_types, hash_order))
    /\ gff' = [pc |-> "reindexed", lines |-> lines, skip_types |-> gff.skip_types,
               first |-> index]
    /\ UNCHANGED <<resolver, tree, intersect, coverage, depth, writer, extract, search>>

NextReindex ==
    \/ BuildIndex
    \/ \E lines \in SeqsUpTo(ChangedLines, MaxChanged) : ReindexChanged(lines)

SpecReindex == InitBuild /\ [][NextReindex]_vars

\* a line that is a format error of the input: not 9 columns, or (its type
\* not being skipped) a start or end that is no number, or no ID= on a line
\* whose end is not 0
IsFormatError(l, skip_types_set) ==
    \/ l.kind = "malformed"
    \/ /\ l.kind \in {"unparsable", "feature"}
       /\ l.type \notin skip_types_set
       /\ \/ l.kind = "unparsable"
          \/ l.e1 # 0 /\ l.id = None

\* C30: when build_index fails on a format error of the input (a line
\* without exactly 9 columns, an unparsable start or end, a missing ID=) it
\* returns before it creates or truncates an artifact: the index files that
\* exist are left as they were.
C30_FormatErrorLeavesArtifacts ==
    (/\ gff.pc = "reindexed"
     /\ \E i \in 1..Len(gff.lines) : IsFormatError(gff.lines[i], gff.skip_types)) =>
        index = gff.first

\* C30 witness: an index of two features exists, the file is changed to a
\* line that parses followed by a line whose start is no number, and the
\* index is still the one of the first run.
C30_Witness ==
    /\ gff.pc = "reindexed"
    /\ gff.first.pc = "built" /\ Len(gff.first.fts) = 2 /\ gff.first.gof # <<>>
    /\ Len(gff.lines) = 2
    /\ gff.lines[1].kind = "feature" /\ gff.lines[1].id # None
    /\ gff.lines[2].kind = "unparsable" /\ gff.lines[2].type \notin gff.skip_types
    /\ index = gff.first

====
